---------------------------- MODULE Spec2Model ----------------------------
(***************************************************************************)
(* Vendor-name normalization of the Incoming-Bills-Dashboard repository.   *)
(*                                                                         *)
(* Three scripts resolve messy invoice vendor names to clean vendor names: *)
(*   det  : scripts/rebuild_normalization_deterministic.py                 *)
(*   v2   : scripts/rebuild_normalization_map_v2.py                        *)
(*   dash : scripts/update_dashboard.py (match_vendor)                     *)
(*                                                                         *)
(* A Python str is modelled as a sequence of one-character strings         *)
(* (<<"A","c","m","e">> is 'Acme').  The characters are those a string of   *)
(* this notation can hold: ASCII from 0x01 to 0x7F without the backquote,  *)
(* the no-break space, and the letters of Latin-1 that have both cases in  *)
(* Latin-1 (0xC0 to 0xDE and 0xE0 to 0xFE without the two signs 0xD7 and   *)
(* 0xF7).  The str methods and the classes \s, \w and \b of re are those   *)
(* of Unicode; [A-Z], [a-zA-Z] and [0-9] in a pattern are ASCII.           *)
(***************************************************************************)
EXTENDS Integers, Sequences, FiniteSets, TLC

\* ------------------------------------------------------------------------
\* Characters (str.upper, str.isalpha, str.islower, re's \s, \w, \d)
\* ------------------------------------------------------------------------
\* A-Z and a-z of a pattern
UpperChars ==
  <<"A","B","C","D","E","F","G","H","I","J","K","L","M",
    "N","O","P","Q","R","S","T","U","V","W","X","Y","Z">>

LowerChars ==
  <<"a","b","c","d","e","f","g","h","i","j","k","l","m",
    "n","o","p","q","r","s","t","u","v","w","x","y","z">>

\* the letters outside ASCII, each upper-case letter at the position of its
\* lower-case letter: str.upper and str.lower map one to the other
UpperLatin1 ==
  <<"À","Á","Â","Ã","Ä","Å","Æ","Ç","È","É","Ê","Ë","Ì","Í","Î",
    "Ï","Ð","Ñ","Ò","Ó","Ô","Õ","Ö","Ø","Ù","Ú","Û","Ü","Ý","Þ">>

LowerLatin1 ==
  <<"à","á","â","ã","ä","å","æ","ç","è","é","ê","ë","ì","í","î",
    "ï","ð","ñ","ò","ó","ô","õ","ö","ø","ù","ú","û","ü","ý","þ">>

\* 0-9 of a pattern; among the characters of the model also re's \d
DigitChars == <<"0","1","2","3","4","5","6","7","8","9">>

Range(f) == { f[x] : x \in DOMAIN f }

\* the upper-case and the lower-case letters of str.isupper, str.islower
UpperSet == Range(UpperChars \o UpperLatin1)

LowerSet == Range(LowerChars \o LowerLatin1)

DigitSet == Range(DigitChars)

\* [A-Z] and [a-zA-Z] of a pattern: the letters of ASCII only
AsciiUpperSet == Range(UpperChars)

AsciiAlphaSet == Range(UpperChars \o LowerChars)

\* str.isspace, str.strip, str.split and re's \s on str: the space, \t, \n,
\* \r, \f, the five control characters 0x0B (vertical tab), 0x1C, 0x1D,
\* 0x1E and 0x1F, and the no-break space 0xA0, written raw below
SpaceSet ==
  {" ", "\t", "\n", "\r", "\f",
   "", "", "", "", "", " "}

IsUpper(c) == c \in UpperSet

IsLower(c) == c \in LowerSet

\* str.isalpha: a letter, of ASCII or not
IsAlpha(c) == c \in UpperSet \/ c \in LowerSet

IsDigit(c) == c \in DigitSet

IsSpace(c) == c \in SpaceSet

\* re's \w on str: the letters of str.isalpha, digits and the underscore
IsWord(c) == IsAlpha(c) \/ IsDigit(c) \/ c = "_"

\* str.upper on a lower-case letter: the table from each lower-case letter
\* to its upper-case letter
UpperChar ==
  LET U == UpperChars \o UpperLatin1
      L == LowerChars \o LowerLatin1
  IN  [c \in LowerSet |-> U[CHOOSE i \in 1..Len(L) : L[i] = c]]

\* str.lower on an upper-case letter
LowerChar ==
  LET U == UpperChars \o UpperLatin1
      L == LowerChars \o LowerLatin1
  IN  [c \in UpperSet |-> L[CHOOSE i \in 1..Len(U) : U[i] = c]]

\* ------------------------------------------------------------------------
\* Strings
\* ------------------------------------------------------------------------
\* A missing cell of a DataFrame (pandas' NaN, None): what pd.isna accepts and
\* dropna drops.  It is no str: not the empty string <<>>, and no sequence of
\* characters
NaN == <<"NaN">>

\* The outcome of a statement that raises (AttributeError, KeyError): the
\* script stops there with the traceback.  It is no str and no table
Raised == <<"raised">>

\* A column that pandas does not read as a column of str: it has cells and
\* every one is missing, so it is a float64 column, on which Series.str
\* raises AttributeError ("Can only use .str accessor with string values")
AllMissing(cells) == cells # {} /\ cells = {NaN}

\* str.upper()
Upper(s) == [i \in 1..Len(s) |-> IF IsLower(s[i]) THEN UpperChar[s[i]] ELSE s[i]]

\* str.lower()
Lower(s) == [i \in 1..Len(s) |-> IF IsUpper(s[i]) THEN LowerChar[s[i]] ELSE s[i]]

RECURSIVE LStrip(_)
LStrip(s) == IF s # <<>> /\ IsSpace(Head(s)) THEN LStrip(Tail(s)) ELSE s

RECURSIVE RStrip(_)
RStrip(s) ==
  IF s # <<>> /\ IsSpace(s[Len(s)]) THEN RStrip(SubSeq(s, 1, Len(s) - 1)) ELSE s

\* str.strip()
Strip(s) == RStrip(LStrip(s))

\* re.sub(r'\s+', ' ', s): every maximal run of whitespace becomes one space
RECURSIVE CollapseWs(_)
CollapseWs(s) ==
  IF s = <<>> THEN <<>>
  ELSE IF IsSpace(Head(s))
       THEN <<" ">> \o CollapseWs(LStrip(s))
       ELSE <<Head(s)>> \o CollapseWs(Tail(s))

\* re.sub(r'\n', ' ', s)
NewlinesToSpaces(s) == [i \in 1..Len(s) |-> IF s[i] = "\n" THEN " " ELSE s[i]]

\* s.startswith(p), and s[i:].startswith(p) for the 1-based position i
HasAt(s, i, p) ==
  /\ i + Len(p) - 1 <= Len(s)
  /\ \A k \in 1..Len(p) : s[i + k - 1] = p[k]

StartsWith(s, p) == HasAt(s, 1, p)

\* p in s (substring)
Contains(s, p) == \E i \in 1..(Len(s) + 1) : HasAt(s, i, p)

\* str.split(): the whitespace-separated tokens
RECURSIVE SplitFrom(_, _)
SplitFrom(s, cur) ==
  IF s = <<>> THEN (IF cur = <<>> THEN <<>> ELSE <<cur>>)
  ELSE IF IsSpace(Head(s))
       THEN (IF cur = <<>> THEN <<>> ELSE <<cur>>) \o SplitFrom(Tail(s), <<>>)
       ELSE SplitFrom(Tail(s), Append(cur, Head(s)))

Split(s) == SplitFrom(s, <<>>)

\* re's \b at the 1-based position p (between s[p-1] and s[p])
WordBoundary(s, p) ==
  LET before == p > 1 /\ p - 1 <= Len(s) /\ IsWord(s[p - 1])
      after  == p >= 1 /\ p <= Len(s) /\ IsWord(s[p])
  IN  before # after

\* The first non-zero entry of a sequence of match lengths (regex alternation:
\* the alternatives are tried left to right), 0 when every one fails.
RECURSIVE FirstMatch(_)
FirstMatch(lens) ==
  IF lens = <<>> THEN 0
  ELSE IF Head(lens) > 0 THEN Head(lens) ELSE FirstMatch(Tail(lens))

\* Length matched at i by  T\.?\b  (greedy dot first, then without it), 0: none
OptDotTokenLen(s, i, T) ==
  IF ~HasAt(s, i, T) THEN 0
  ELSE LET e == i + Len(T)
       IN  IF e <= Len(s) /\ s[e] = "." /\ WordBoundary(s, e + 1)
           THEN Len(T) + 1
           ELSE IF WordBoundary(s, e) THEN Len(T) ELSE 0

\* Length matched at i by  L\.?L\.?C\.?\b , 0: none
DottedLLCLen(s, i) ==
  LET at(k, c) == k <= Len(s) /\ s[k] = c
      j1 == IF at(i + 1, ".") THEN i + 2 ELSE i + 1
      j2 == IF at(j1 + 1, ".") THEN j1 + 2 ELSE j1 + 1
      e  == j2 + 1
  IN  IF ~(at(i, "L") /\ at(j1, "L") /\ at(j2, "C")) THEN 0
      ELSE IF at(e, ".") /\ WordBoundary(s, e + 1) THEN e + 1 - i
           ELSE IF WordBoundary(s, e) THEN e - i ELSE 0

\* Length matched at i by  T\b , 0: none
TokenLen(s, i, T) ==
  IF HasAt(s, i, T) /\ WordBoundary(s, i + Len(T)) THEN Len(T) ELSE 0

\* ------------------------------------------------------------------------
\* rebuild_normalization_deterministic.py: helper functions
\* ------------------------------------------------------------------------
MIN_NAME_LENGTH == 5

MIN_ALPHA_CHARS == 3

\* "if pd.isna(name) or not name: return ''"
normalize_for_lookup(name) ==
  IF name = NaN \/ name = <<>> THEN <<>> ELSE Upper(CollapseWs(Strip(name)))

\* r'\b(INC\.?|LLC\.?|CORP\.?|CO\.?|L\.?L\.?C\.?)\b' matched at position i
DetSuffixLen(s, i) ==
  IF ~WordBoundary(s, i) THEN 0
  ELSE FirstMatch(<< OptDotTokenLen(s, i, <<"I","N","C">>),
                     OptDotTokenLen(s, i, <<"L","L","C">>),
                     OptDotTokenLen(s, i, <<"C","O","R","P">>),
                     OptDotTokenLen(s, i, <<"C","O">>),
                     DottedLLCLen(s, i) >>)

\* re.sub(suffix pattern, '', s) from position i on
RECURSIVE DetRemoveSuffixes(_, _)
DetRemoveSuffixes(s, i) ==
  IF i > Len(s) THEN <<>>
  ELSE LET m == DetSuffixLen(s, i)
       IN  IF m > 0 THEN DetRemoveSuffixes(s, i + m)
           ELSE <<s[i]>> \o DetRemoveSuffixes(s, i + 1)

\* re.sub(r'[^A-Z0-9\s]', ' ', s)
PunctToSpaces(s) ==
  [i \in 1..Len(s) |->
     IF s[i] \in AsciiUpperSet \/ IsDigit(s[i]) \/ IsSpace(s[i]) THEN s[i] ELSE " "]

normalize_aggressive(name) ==
  IF name = NaN \/ name = <<>> THEN <<>>
  ELSE Strip(CollapseWs(PunctToSpaces(DetRemoveSuffixes(Upper(name), 1))))

\* sum(1 for c in name if c.isalpha())
AlphaCount(name) == Cardinality({i \in 1..Len(name) : IsAlpha(name[i])})

\* re's $ : at the end, or just before a trailing newline
AtEnd(s, p) == p = Len(s) + 1 \/ (p = Len(s) /\ s[p] = "\n")

\* re.match(r'^(INC|LLC|CORP|CO|LTD)\.?$', name, re.IGNORECASE)
IsBareSuffix(name) ==
  LET u == Upper(name)
  IN  \E T \in { <<"I","N","C">>, <<"L","L","C">>, <<"C","O","R","P">>,
                 <<"C","O">>, <<"L","T","D">> } :
        /\ HasAt(u, 1, T)
        /\ \/ AtEnd(u, Len(T) + 1)
           \/ (Len(u) > Len(T) /\ u[Len(T) + 1] = "." /\ AtEnd(u, Len(T) + 2))

\* re.match(r'^\d+$', name, re.IGNORECASE)
IsAllDigits(name) ==
  \E e \in 1..Len(name) :
    (\A k \in 1..e : IsDigit(name[k])) /\ AtEnd(name, e + 1)

\* re.match(r'^[^a-zA-Z]*$', name, re.IGNORECASE): no letter of ASCII; a
\* letter outside ASCII is one of the characters the class accepts
HasNoLetters(name) ==
  \E e \in 0..Len(name) :
    (\A k \in 1..e : name[k] \notin AsciiAlphaSet) /\ AtEnd(name, e + 1)

IsGarbage(name) == IsBareSuffix(name) \/ IsAllDigits(name) \/ HasNoLetters(name)

NoReason == <<>>

\* a classifier that looks at the first character before it counts the
\* letters: the rule order of is_invalid_name must tell itself apart from it
is_invalid_name_lowercase_first(name) ==
  IF name = <<>> THEN <<TRUE, <<"empty">>>>
  ELSE IF Len(name) < MIN_NAME_LENGTH THEN <<TRUE, <<"too_short", Len(name)>>>>
  ELSE IF IsLower(name[1]) THEN <<TRUE, <<"starts_lowercase">>>>
  ELSE IF AlphaCount(name) < MIN_ALPHA_CHARS
       THEN <<TRUE, <<"too_few_letters", AlphaCount(name)>>>>
  ELSE IF IsGarbage(name) THEN <<TRUE, <<"garbage_pattern">>>>
  ELSE <<FALSE, NoReason>>

\* a classifier that tries the garbage patterns before the length
is_invalid_name_garbage_first(name) ==
  IF name = <<>> THEN <<TRUE, <<"empty">>>>
  ELSE IF IsGarbage(name) THEN <<TRUE, <<"garbage_pattern">>>>
  ELSE IF Len(name) < MIN_NAME_LENGTH THEN <<TRUE, <<"too_short", Len(name)>>>>
  ELSE IF AlphaCount(name) < MIN_ALPHA_CHARS
       THEN <<TRUE, <<"too_few_letters", AlphaCount(name)>>>>
  ELSE IF IsLower(name[1]) THEN <<TRUE, <<"starts_lowercase">>>>
  ELSE <<FALSE, NoReason>>

\* is_invalid_name(name) -> <<is_invalid, reason>>.  A reason is <<code>> or
\* <<code, n>> for the reasons whose text carries a count:
\* "too_short (n chars)" is <<"too_short", n>>, "too_few_letters (n)" is
\* <<"too_few_letters", n>>, "starts_lowercase (OCR truncation)" is
\* <<"starts_lowercase">>; the reason None is <<>>.
is_invalid_name(name) ==
  IF name = <<>> THEN <<TRUE, <<"empty">>>>
  ELSE IF Len(name) < MIN_NAME_LENGTH THEN <<TRUE, <<"too_short", Len(name)>>>>
  ELSE IF AlphaCount(name) < MIN_ALPHA_CHARS
       THEN <<TRUE, <<"too_few_letters", AlphaCount(name)>>>>
  ELSE IF IsLower(name[1]) THEN <<TRUE, <<"starts_lowercase">>>>
  ELSE IF IsGarbage(name) THEN <<TRUE, <<"garbage_pattern">>>>
  ELSE <<FALSE, NoReason>>

\* ------------------------------------------------------------------------
\* rebuild_normalization_map_v2.py: helper functions
\* ------------------------------------------------------------------------
\* "if pd.isna(name): return ''"
clean_name(name) ==
  IF name = NaN THEN <<>> ELSE Strip(CollapseWs(NewlinesToSpaces(name)))

\* re.sub(r'[^A-Z0-9\s]', '', s)
DropPunct(s) ==
  SelectSeq(s, LAMBDA c : c \in AsciiUpperSet \/ IsDigit(c) \/ IsSpace(c))

V2Stopwords ==
  << <<"I","N","C">>, <<"L","L","C">>, <<"C","O","R","P">>, <<"C","O">>,
     <<"C","O","M","P","A","N","Y">>, <<"S","E","R","V","I","C","E","S">>,
     <<"S","E","R","V","I","C","E">>, <<"D","I","S","P","O","S","A","L">>,
     <<"W","A","S","T","E">>, <<"S","A","N","I","T","A","T","I","O","N">> >>

\* r'\b(INC|LLC|CORP|CO|COMPANY|SERVICES|SERVICE|DISPOSAL|WASTE|SANITATION)\b'
V2StopwordLen(s, i) ==
  IF ~WordBoundary(s, i) THEN 0
  ELSE FirstMatch([k \in 1..Len(V2Stopwords) |-> TokenLen(s, i, V2Stopwords[k])])

RECURSIVE V2RemoveStopwords(_, _)
V2RemoveStopwords(s, i) ==
  IF i > Len(s) THEN <<>>
  ELSE LET m == V2StopwordLen(s, i)
       IN  IF m > 0 THEN V2RemoveStopwords(s, i + m)
           ELSE <<s[i]>> \o V2RemoveStopwords(s, i + 1)

\* "if pd.isna(name): return ''"
normalize_name(name) ==
  IF name = NaN THEN <<>>
  ELSE LET a == Strip(CollapseWs(DropPunct(Upper(clean_name(name)))))
       IN  Strip(CollapseWs(V2RemoveStopwords(a, 1)))

\* ------------------------------------------------------------------------
\* update_dashboard.py: helper functions
\* ------------------------------------------------------------------------
\* vn.replace('\\n', ' ').replace('\\r', ' '): the two-character texts
\* backslash-n and backslash-r become a space
RECURSIVE ReplaceEscapes(_)
ReplaceEscapes(s) ==
  IF s = <<>> THEN <<>>
  ELSE IF Len(s) >= 2 /\ s[1] = "\\" /\ s[2] \in {"n", "r"}
       THEN <<" ">> \o ReplaceEscapes(SubSeq(s, 3, Len(s)))
       ELSE <<Head(s)>> \o ReplaceEscapes(Tail(s))

\* "if pd.isna(vn): return ''"
clean_vendor_name(vn) ==
  IF vn = NaN THEN <<>>
  ELSE LET a == ReplaceEscapes(vn)
           b == [i \in 1..Len(a) |-> IF a[i] \in {"\n", "\r"} THEN " " ELSE a[i]]
       IN  Strip(CollapseWs(b))

\* re.sub(r'[^\w\s]', ' ', s)
NonWordToSpaces(s) ==
  [i \in 1..Len(s) |-> IF IsWord(s[i]) \/ IsSpace(s[i]) THEN s[i] ELSE " "]

\* re.sub(r'(\d+)', r' \1 ', s): every maximal digit run gets a space on
\* each side
RECURSIVE SpaceNumbers(_, _)
SpaceNumbers(s, inrun) ==
  IF s = <<>> THEN (IF inrun THEN <<" ">> ELSE <<>>)
  ELSE IF IsDigit(Head(s))
       THEN (IF inrun THEN <<>> ELSE <<" ">>) \o <<Head(s)>>
            \o SpaceNumbers(Tail(s), TRUE)
       ELSE (IF inrun THEN <<" ">> ELSE <<>>) \o <<Head(s)>>
            \o SpaceNumbers(Tail(s), FALSE)

normalize_for_match(s) ==
  Lower(Strip(CollapseWs(SpaceNumbers(NonWordToSpaces(s), FALSE))))

\* ------------------------------------------------------------------------
\* rapidfuzz (fuzz.ratio, fuzz.token_sort_ratio, fuzz.partial_ratio,
\* process.extractOne), as the two fuzzy scripts call it: no processor, no
\* score_cutoff.  A score is the exact fraction <<num, den>> in lowest terms
\* (100 is <<100, 1>>); on strings of up to 60 characters every comparison the
\* library makes on its floats agrees with the comparison of the fractions.
\* ------------------------------------------------------------------------
RECURSIVE Gcd(_, _)
Gcd(a, b) == IF b = 0 THEN a ELSE Gcd(b, a % b)

Frac(n, d) == LET g == Gcd(n, d) IN <<n \div g, d \div g>>

Score100 == <<100, 1>>

Score0 == <<0, 1>>

ScoreGT(x, y) == x[1] * y[2] > y[1] * x[2]

\* score >= threshold, for an integer threshold
ScoreGE(x, t) == x[1] >= t * x[2]

Max2(a, b) == IF a >= b THEN a ELSE b

\* One row of the longest-common-subsequence table: prev is row i-1
\* (prev[j+1] is the entry of column j), c the character of row i.
RECURSIVE LcsRow(_, _, _, _)
LcsRow(prev, cur, c, b) ==
  LET j == Len(cur)
  IN  IF j > Len(b) THEN cur
      ELSE LcsRow(prev,
                  Append(cur, IF c = b[j] THEN prev[j] + 1
                              ELSE Max2(prev[j + 1], cur[j])),
                  c, b)

RECURSIVE LcsRows(_, _, _, _)
LcsRows(a, b, i, prev) ==
  IF i > Len(a) THEN prev[Len(b) + 1]
  ELSE LcsRows(a, b, i + 1, LcsRow(prev, <<0>>, a[i], b))

\* length of the longest common subsequence of a and b
Lcs(a, b) ==
  IF a = <<>> \/ b = <<>> THEN 0
  ELSE LcsRows(a, b, 1, [j \in 1..(Len(b) + 1) |-> 0])

\* fuzz.ratio: 100 * (1 - indel_distance / (len1 + len2))
ratio(s1, s2) ==
  IF Len(s1) + Len(s2) = 0 THEN Score100
  ELSE Frac(200 * Lcs(s1, s2), Len(s1) + Len(s2))

\* sorted(tokens): insertion sort by code point order, over the characters of
\* the model: ASCII from 0x01 to 0x7F without the backquote, which a TLA+
\* string cannot hold, the no-break space and the letters of Latin-1; the
\* control characters that have no escape are written raw
CharOrder ==
  <<"", "", "", "", "", "", "", "", "\t", "\n", "", "\f", "\r", "", "", "",
    "", "", "", "", "", "", "", "", "", "", "", "", "", "", "",
    " ", "!", "\"", "#", "$", "%", "&", "'", "(", ")",
    "*", "+", ",", "-", ".", "/">> \o DigitChars \o
  <<":", ";", "<", "=", ">", "?", "@">> \o UpperChars \o
  <<"[", "\\", "]", "^", "_">> \o LowerChars \o <<"{", "|", "}", "~", "", " ">>
    \o UpperLatin1 \o LowerLatin1

\* ord(c): the position of each character in the order
Ord == [c \in Range(CharOrder) |-> CHOOSE i \in 1..Len(CharOrder) : CharOrder[i] = c]

RECURSIVE StrLess(_, _)
StrLess(a, b) ==
  IF b = <<>> THEN FALSE
  ELSE IF a = <<>> THEN TRUE
  ELSE IF Head(a) = Head(b) THEN StrLess(Tail(a), Tail(b))
  ELSE Ord[Head(a)] < Ord[Head(b)]

RECURSIVE InsertSorted(_, _)
InsertSorted(x, xs) ==
  IF xs = <<>> THEN <<x>>
  ELSE IF StrLess(x, Head(xs)) THEN <<x>> \o xs
  ELSE <<Head(xs)>> \o InsertSorted(x, Tail(xs))

RECURSIVE SortStrings(_)
SortStrings(xs) ==
  IF xs = <<>> THEN <<>>
  ELSE InsertSorted(Head(xs), SortStrings(Tail(xs)))

\* " ".join(tokens)
RECURSIVE JoinSpace(_)
JoinSpace(xs) ==
  IF xs = <<>> THEN <<>>
  ELSE IF Len(xs) = 1 THEN xs[1]
  ELSE xs[1] \o <<" ">> \o JoinSpace(Tail(xs))

token_sort_ratio(s1, s2) ==
  ratio(JoinSpace(SortStrings(Split(s1))), JoinSpace(SortStrings(Split(s2))))

RECURSIVE BestScore(_)
BestScore(xs) ==
  IF xs = <<>> THEN Score0
  ELSE LET r == BestScore(Tail(xs))
       IN  IF ScoreGT(r, Head(xs)) THEN r ELSE Head(xs)

\* _partial_ratio_impl(s1, s2) with len(s1) <= len(s2): the best ratio of s1
\* against the prefixes of s2 shorter than s1, the windows of s2 as long as
\* s1, and the suffixes of s2 no longer than s1
PartialRatioImpl(s1, s2) ==
  LET l1 == Len(s1)
      l2 == Len(s2)
      prefixes == [i \in 1..(l1 - 1) |->
                     IF \E k \in 1..l1 : s1[k] = s2[i]
                     THEN ratio(s1, SubSeq(s2, 1, i)) ELSE Score0]
      windows  == [i \in 1..(l2 - l1) |->
                     IF \E k \in 1..l1 : s1[k] = s2[i + l1 - 1]
                     THEN ratio(s1, SubSeq(s2, i, i + l1 - 1)) ELSE Score0]
      suffixes == [i \in (l2 - l1 + 1)..l2 |->
                     IF \E k \in 1..l1 : s1[k] = s2[i]
                     THEN ratio(s1, SubSeq(s2, i, l2)) ELSE Score0]
  IN  IF l1 = 0 THEN Score0
      ELSE BestScore(prefixes \o windows \o
                     [i \in 1..l1 |-> suffixes[l2 - l1 + i]])

partial_ratio(s1, s2) ==
  IF s1 = <<>> /\ s2 = <<>> THEN Score100
  ELSE IF Len(s1) < Len(s2) THEN PartialRatioImpl(s1, s2)
  ELSE IF Len(s2) < Len(s1) THEN PartialRatioImpl(s2, s1)
  ELSE LET r == PartialRatioImpl(s1, s2)
           r2 == PartialRatioImpl(s2, s1)
       IN  IF r # Score100 /\ ScoreGT(r2, r) THEN r2 ELSE r

ApplyScorer(scorer, a, b) ==
  IF scorer = "token_sort_ratio" THEN token_sort_ratio(a, b)
  ELSE partial_ratio(a, b)

\* process.extractOne(query, choices, scorer=scorer): <<choice, score>> of the
\* first choice with the highest score, a missing choice being passed over;
\* NoResult (the library's None) when no choice is left
NoResult == <<>>

RECURSIVE ExtractFrom(_, _, _, _, _)
ExtractFrom(query, choices, scorer, i, best) ==
  IF i > Len(choices) THEN best
  ELSE IF choices[i] = NaN THEN ExtractFrom(query, choices, scorer, i + 1, best)
  ELSE LET sc == ApplyScorer(scorer, query, choices[i])
       IN  IF best = NoResult \/ (best # NoResult /\ ScoreGT(sc, best[2]))
           THEN (IF sc = Score100 THEN <<choices[i], sc>>
                 ELSE ExtractFrom(query, choices, scorer, i + 1, <<choices[i], sc>>))
           ELSE ExtractFrom(query, choices, scorer, i + 1, best)

extractOne(query, choices, scorer) ==
  ExtractFrom(query, choices, scorer, 1, NoResult)

\* ------------------------------------------------------------------------
\* Generic helpers for dicts, lists and sets
\* ------------------------------------------------------------------------
\* A dict is a function on its keys.  Built from the sequence of its writes
\* items[i] = <<key, value>>: the first write of a key wins
\* ("if k not in d: d[k] = v"), or the last ("d[k] = v").
DictFirst(items) ==
  [k \in {items[i][1] : i \in DOMAIN items} |->
     items[CHOOSE i \in DOMAIN items :
             items[i][1] = k /\ \A j \in DOMAIN items : items[j][1] = k => i <= j][2]]

DictLast(items) ==
  [k \in {items[i][1] : i \in DOMAIN items} |->
     items[CHOOSE i \in DOMAIN items :
             items[i][1] = k /\ \A j \in DOMAIN items : items[j][1] = k => j <= i][2]]

EmptyDict == <<>>

\* d with d[k] = v
DictPut(d, k, v) == [x \in DOMAIN d \cup {k} |-> IF x = k THEN v ELSE d[x]]

\* Series.unique(): the distinct values in first-seen order
RECURSIVE Unique(_)
Unique(xs) ==
  IF xs = <<>> THEN <<>>
  ELSE LET r == Unique(SubSeq(xs, 1, Len(xs) - 1))
           x == xs[Len(xs)]
       IN  IF x \in Range(r) THEN r ELSE Append(r, x)

\* the strings of a set in sorted order (groupby sorts its keys)
RECURSIVE SortedSeq(_)
SortedSeq(S) ==
  IF S = {} THEN <<>>
  ELSE LET m == CHOOSE x \in S : \A y \in S \ {x} : StrLess(x, y)
       IN  <<m>> \o SortedSeq(S \ {m})

RECURSIVE Concat(_)
Concat(seqs) == IF seqs = <<>> THEN <<>> ELSE Head(seqs) \o Concat(Tail(seqs))

\* the permutations of a finite set, as sequences
RECURSIVE Perms(_)
Perms(S) ==
  IF S = {} THEN {<<>>}
  ELSE UNION {{<<x>> \o p : p \in Perms(S \ {x})} : x \in S}

\* MANUAL_OVERRIDES of rebuild_normalization_deterministic.py, as the
\* sequence of its <<key, value>> items
DET_MANUAL_OVERRIDES ==
  \* WASTE PRO -> Waste Pro
  << << <<"W","A","S","T","E"," ","P","R","O">>,
        <<"W","a","s","t","e"," ","P","r","o">> >>,
  \* Waste Pro -> Waste Pro
     << <<"W","a","s","t","e"," ","P","r","o">>,
        <<"W","a","s","t","e"," ","P","r","o">> >>,
  \* WastePro -> Waste Pro
     << <<"W","a","s","t","e","P","r","o">>,
        <<"W","a","s","t","e"," ","P","r","o">> >>,
  \* WASTE PRO USA -> Waste Pro
     << <<"W","A","S","T","E"," ","P","R","O"," ","U","S","A">>,
        <<"W","a","s","t","e"," ","P","r","o">> >>,
  \* WASTE PRO Caring For Our Communities -> Waste Pro
     << <<"W","A","S","T","E"," ","P","R","O"," ","C","a","r","i","n","g"," ","F","o","r"," ","O","u","r"," ","C","o","m","m","u","n","i","t","i","e","s">>,
        <<"W","a","s","t","e"," ","P","r","o">> >>,
  \* REPUBLIC SERVICES -> Republic Services
     << <<"R","E","P","U","B","L","I","C"," ","S","E","R","V","I","C","E","S">>,
        <<"R","e","p","u","b","l","i","c"," ","S","e","r","v","i","c","e","s">> >>,
  \* Republic Services -> Republic Services
     << <<"R","e","p","u","b","l","i","c"," ","S","e","r","v","i","c","e","s">>,
        <<"R","e","p","u","b","l","i","c"," ","S","e","r","v","i","c","e","s">> >>,
  \* WASTE MANAGEMENT -> Waste Management
     << <<"W","A","S","T","E"," ","M","A","N","A","G","E","M","E","N","T">>,
        <<"W","a","s","t","e"," ","M","a","n","a","g","e","m","e","n","t">> >>,
  \* Waste Management -> Waste Management
     << <<"W","a","s","t","e"," ","M","a","n","a","g","e","m","e","n","t">>,
        <<"W","a","s","t","e"," ","M","a","n","a","g","e","m","e","n","t">> >>,
  \* CASELLA -> Casella Waste
     << <<"C","A","S","E","L","L","A">>,
        <<"C","a","s","e","l","l","a"," ","W","a","s","t","e">> >>,
  \* Casella -> Casella Waste
     << <<"C","a","s","e","l","l","a">>,
        <<"C","a","s","e","l","l","a"," ","W","a","s","t","e">> >>,
  \* casella -> Casella Waste
     << <<"c","a","s","e","l","l","a">>,
        <<"C","a","s","e","l","l","a"," ","W","a","s","t","e">> >>,
  \* CASELLA WASTE -> Casella Waste
     << <<"C","A","S","E","L","L","A"," ","W","A","S","T","E">>,
        <<"C","a","s","e","l","l","a"," ","W","a","s","t","e">> >>,
  \* CASELLA WASTE SYSTEMS -> Casella Waste
     << <<"C","A","S","E","L","L","A"," ","W","A","S","T","E"," ","S","Y","S","T","E","M","S">>,
        <<"C","a","s","e","l","l","a"," ","W","a","s","t","e">> >>,
  \* GFL -> GFL Environmental
     << <<"G","F","L">>,
        <<"G","F","L"," ","E","n","v","i","r","o","n","m","e","n","t","a","l">> >>,
  \* GFL Environmental -> GFL Environmental
     << <<"G","F","L"," ","E","n","v","i","r","o","n","m","e","n","t","a","l">>,
        <<"G","F","L"," ","E","n","v","i","r","o","n","m","e","n","t","a","l">> >>,
  \* GFL ENVIRONMENTAL -> GFL Environmental
     << <<"G","F","L"," ","E","N","V","I","R","O","N","M","E","N","T","A","L">>,
        <<"G","F","L"," ","E","n","v","i","r","o","n","m","e","n","t","a","l">> >>,
  \* RUMPKE -> Rumpke
     << <<"R","U","M","P","K","E">>,
        <<"R","u","m","p","k","e">> >>,
  \* Rumpke -> Rumpke
     << <<"R","u","m","p","k","e">>,
        <<"R","u","m","p","k","e">> >>,
  \* Flood Brothers -> Flood Brothers Disposal
     << <<"F","l","o","o","d"," ","B","r","o","t","h","e","r","s">>,
        <<"F","l","o","o","d"," ","B","r","o","t","h","e","r","s"," ","D","i","s","p","o","s","a","l">> >>,
  \* FLOOD BROTHERS -> Flood Brothers Disposal
     << <<"F","L","O","O","D"," ","B","R","O","T","H","E","R","S">>,
        <<"F","l","o","o","d"," ","B","r","o","t","h","e","r","s"," ","D","i","s","p","o","s","a","l">> >>,
  \* MERIDIAN WASTE -> Meridian Waste
     << <<"M","E","R","I","D","I","A","N"," ","W","A","S","T","E">>,
        <<"M","e","r","i","d","i","a","n"," ","W","a","s","t","e">> >>,
  \* Meridian Waste -> Meridian Waste
     << <<"M","e","r","i","d","i","a","n"," ","W","a","s","t","e">>,
        <<"M","e","r","i","d","i","a","n"," ","W","a","s","t","e">> >>,
  \* DELTA WASTE SOLUTIONS -> Delta Waste Solutions
     << <<"D","E","L","T","A"," ","W","A","S","T","E"," ","S","O","L","U","T","I","O","N","S">>,
        <<"D","e","l","t","a"," ","W","a","s","t","e"," ","S","o","l","u","t","i","o","n","s">> >>,
  \* 1-800-GOT-JUNK -> 1-800-GOT-JUNK National
     << <<"1","-","8","0","0","-","G","O","T","-","J","U","N","K">>,
        <<"1","-","8","0","0","-","G","O","T","-","J","U","N","K"," ","N","a","t","i","o","n","a","l">> >>,
  \* 1-800-Got-Junk -> 1-800-GOT-JUNK National
     << <<"1","-","8","0","0","-","G","o","t","-","J","u","n","k">>,
        <<"1","-","8","0","0","-","G","O","T","-","J","U","N","K"," ","N","a","t","i","o","n","a","l">> >>,
  \* 1-800-Got Junk -> 1-800-GOT-JUNK National
     << <<"1","-","8","0","0","-","G","o","t"," ","J","u","n","k">>,
        <<"1","-","8","0","0","-","G","O","T","-","J","U","N","K"," ","N","a","t","i","o","n","a","l">> >>,
  \* 1-800 Got Junk -> 1-800-GOT-JUNK National
     << <<"1","-","8","0","0"," ","G","o","t"," ","J","u","n","k">>,
        <<"1","-","8","0","0","-","G","O","T","-","J","U","N","K"," ","N","a","t","i","o","n","a","l">> >>,
  \* 1-800-GOT-JUNK? -> 1-800-GOT-JUNK National
     << <<"1","-","8","0","0","-","G","O","T","-","J","U","N","K","?">>,
        <<"1","-","8","0","0","-","G","O","T","-","J","U","N","K"," ","N","a","t","i","o","n","a","l">> >>,
  \* 1-800-Got Junk Commercial Services (USA) LLC -> 1-800-GOT-JUNK National
     << <<"1","-","8","0","0","-","G","o","t"," ","J","u","n","k"," ","C","o","m","m","e","r","c","i","a","l"," ","S","e","r","v","i","c","e","s"," ","(","U","S","A",")"," ","L","L","C">>,
        <<"1","-","8","0","0","-","G","O","T","-","J","U","N","K"," ","N","a","t","i","o","n","a","l">> >> >>

\* MANUAL_OVERRIDES of rebuild_normalization_map_v2.py, as the sequence of
\* its <<key, value>> items
V2_MANUAL_OVERRIDES ==
  \* Anytime -> Anytime Waste Systems
  << << <<"A","n","y","t","i","m","e">>,
        <<"A","n","y","t","i","m","e"," ","W","a","s","t","e"," ","S","y","s","t","e","m","s">> >>,
  \* ANYTIME -> Anytime Waste Systems
     << <<"A","N","Y","T","I","M","E">>,
        <<"A","n","y","t","i","m","e"," ","W","a","s","t","e"," ","S","y","s","t","e","m","s">> >>,
  \* casella -> Casella Waste
     << <<"c","a","s","e","l","l","a">>,
        <<"C","a","s","e","l","l","a"," ","W","a","s","t","e">> >>,
  \* Casella -> Casella Waste
     << <<"C","a","s","e","l","l","a">>,
        <<"C","a","s","e","l","l","a"," ","W","a","s","t","e">> >>,
  \* CASELLA -> Casella Waste
     << <<"C","A","S","E","L","L","A">>,
        <<"C","a","s","e","l","l","a"," ","W","a","s","t","e">> >>,
  \* ROBINSON -> Robinson Waste
     << <<"R","O","B","I","N","S","O","N">>,
        <<"R","o","b","i","n","s","o","n"," ","W","a","s","t","e">> >>,
  \* Robinson -> Robinson Waste
     << <<"R","o","b","i","n","s","o","n">>,
        <<"R","o","b","i","n","s","o","n"," ","W","a","s","t","e">> >>,
  \* Friedman -> Friedman Industries Inc.
     << <<"F","r","i","e","d","m","a","n">>,
        <<"F","r","i","e","d","m","a","n"," ","I","n","d","u","s","t","r","i","e","s"," ","I","n","c",".">> >>,
  \* FRIEDMAN -> Friedman Industries Inc.
     << <<"F","R","I","E","D","M","A","N">>,
        <<"F","r","i","e","d","m","a","n"," ","I","n","d","u","s","t","r","i","e","s"," ","I","n","c",".">> >>,
  \* Fruednab -> Friedman Industries Inc.
     << <<"F","r","u","e","d","n","a","b">>,
        <<"F","r","i","e","d","m","a","n"," ","I","n","d","u","s","t","r","i","e","s"," ","I","n","c",".">> >>,
  \* PRIORITY -> Priority Waste
     << <<"P","R","I","O","R","I","T","Y">>,
        <<"P","r","i","o","r","i","t","y"," ","W","a","s","t","e">> >>,
  \* PPRIORITY -> Priority Waste
     << <<"P","P","R","I","O","R","I","T","Y">>,
        <<"P","r","i","o","r","i","t","y"," ","W","a","s","t","e">> >>,
  \* Priority -> Priority Waste
     << <<"P","r","i","o","r","i","t","y">>,
        <<"P","r","i","o","r","i","t","y"," ","W","a","s","t","e">> >>,
  \* Walters -> Walters Services
     << <<"W","a","l","t","e","r","s">>,
        <<"W","a","l","t","e","r","s"," ","S","e","r","v","i","c","e","s">> >>,
  \* WALTERS -> Walters Services
     << <<"W","A","L","T","E","R","S">>,
        <<"W","a","l","t","e","r","s"," ","S","e","r","v","i","c","e","s">> >>,
  \* Best Way -> Bestway Disposal
     << <<"B","e","s","t"," ","W","a","y">>,
        <<"B","e","s","t","w","a","y"," ","D","i","s","p","o","s","a","l">> >>,
  \* BEST WAY -> Bestway Disposal
     << <<"B","E","S","T"," ","W","A","Y">>,
        <<"B","e","s","t","w","a","y"," ","D","i","s","p","o","s","a","l">> >>,
  \* ROCKY RIDGE -> Rocky Ridge Sanitation
     << <<"R","O","C","K","Y"," ","R","I","D","G","E">>,
        <<"R","o","c","k","y"," ","R","i","d","g","e"," ","S","a","n","i","t","a","t","i","o","n">> >>,
  \* HDS HOMEWOOD -> Homewood Disposal
     << <<"H","D","S"," ","H","O","M","E","W","O","O","D">>,
        <<"H","o","m","e","w","o","o","d"," ","D","i","s","p","o","s","a","l">> >>,
  \* Flood Brothers -> Flood Brothers Disposal
     << <<"F","l","o","o","d"," ","B","r","o","t","h","e","r","s">>,
        <<"F","l","o","o","d"," ","B","r","o","t","h","e","r","s"," ","D","i","s","p","o","s","a","l">> >>,
  \* FLOOD BROTHERS -> Flood Brothers Disposal
     << <<"F","L","O","O","D"," ","B","R","O","T","H","E","R","S">>,
        <<"F","l","o","o","d"," ","B","r","o","t","h","e","r","s"," ","D","i","s","p","o","s","a","l">> >>,
  \* 1-800-Got Junk Commercial Services (USA) LLC -> 1-800-GOT-JUNK National
     << <<"1","-","8","0","0","-","G","o","t"," ","J","u","n","k"," ","C","o","m","m","e","r","c","i","a","l"," ","S","e","r","v","i","c","e","s"," ","(","U","S","A",")"," ","L","L","C">>,
        <<"1","-","8","0","0","-","G","O","T","-","J","U","N","K"," ","N","a","t","i","o","n","a","l">> >>,
  \* WASTE PRO Caring For Our Communities -> Waste Pro
     << <<"W","A","S","T","E"," ","P","R","O"," ","C","a","r","i","n","g"," ","F","o","r"," ","O","u","r"," ","C","o","m","m","u","n","i","t","i","e","s">>,
        <<"W","a","s","t","e"," ","P","r","o">> >>,
  \* Fusion Waste and Recycling -> Fusion Waste & Recycling
     << <<"F","u","s","i","o","n"," ","W","a","s","t","e"," ","a","n","d"," ","R","e","c","y","c","l","i","n","g">>,
        <<"F","u","s","i","o","n"," ","W","a","s","t","e"," ","&"," ","R","e","c","y","c","l","i","n","g">> >>,
  \* J & J SERVICES, INC. -> J & J Services Inc.
     << <<"J"," ","&"," ","J"," ","S","E","R","V","I","C","E","S",","," ","I","N","C",".">>,
        <<"J"," ","&"," ","J"," ","S","e","r","v","i","c","e","s"," ","I","n","c",".">> >>,
  \* J & J Services, Inc. -> J & J Services Inc.
     << <<"J"," ","&"," ","J"," ","S","e","r","v","i","c","e","s",","," ","I","n","c",".">>,
        <<"J"," ","&"," ","J"," ","S","e","r","v","i","c","e","s"," ","I","n","c",".">> >>,
  \* ash Franchise Partners, LLC -> Trash Franchise Partners LLC
     << <<"a","s","h"," ","F","r","a","n","c","h","i","s","e"," ","P","a","r","t","n","e","r","s",","," ","L","L","C">>,
        <<"T","r","a","s","h"," ","F","r","a","n","c","h","i","s","e"," ","P","a","r","t","n","e","r","s"," ","L","L","C">> >> >>

\* k in MANUAL_OVERRIDES, MANUAL_OVERRIDES[k]
InTable(table, k) == \E i \in DOMAIN table : table[i][1] = k

TableGet(table, k) ==
  table[CHOOSE i \in DOMAIN table :
          table[i][1] = k /\ \A j \in DOMAIN table : table[j][1] = k => j <= i][2]

\* ------------------------------------------------------------------------
\* Input data: the names, reference lists, location relations and invoice
\* rows the scripts are run on
\* ------------------------------------------------------------------------
N_WastePro == <<"W","a","s","t","e"," ","P","r","o">>

N_WasteNlPro == <<"W","a","s","t","e","\n","P","r","o">>

N_WASTE_PRO == <<"W","A","S","T","E"," ","P","R","O">>

N_CasellaWaste == <<"C","a","s","e","l","l","a"," ","W","a","s","t","e">>

N_CasellaLower == <<"c","a","s","e","l","l","a">>

N_GFL == <<"G","F","L">>

N_AcmeInc == <<"A","c","m","e"," ","I","n","c">>

N_ACME_INC == <<"A","C","M","E"," ","I","N","C">>

N_AcmeUnderscoreInc == <<"A","C","M","E","_","I","N","C">>

N_ACME == <<"A","C","M","E">>

N_AcmeDisposal == <<"A","c","m","e"," ","D","i","s","p","o","s","a","l">>

N_SiteA == <<"S","i","t","e"," ","A">>

N_SITE_A == <<"S","I","T","E"," ","A">>

N_SiteB == <<"S","i","t","e"," ","B">>

N_Depot == <<"D","e","p","o","t">>

Unmatched == <<"U","n","m","a","t","c","h","e","d">>
\* clean_vendor_names.csv / vendor_names.xlsx: the vendor_name column after
\* dropna, strip and unique (stripped names without duplicates, file order)
RefLists ==
  { <<N_WastePro, N_CasellaWaste>>,
    <<N_AcmeInc, N_ACME_INC>>,
    <<N_GFL, N_ACME, N_AcmeDisposal>>,
    <<N_AcmeDisposal, N_AcmeInc, N_WastePro>> }

\* location_vendor_lookup: sets of <<location_name, vendor_name>> rows, among
\* them the file without rows and one whose only row has no location_name
LocRelations ==
  { {},
    {<<NaN, N_WastePro>>},
    {<<N_SiteA, N_AcmeDisposal>>},
    {<<N_SITE_A, N_AcmeInc>>, <<N_SiteA, N_WastePro>>},
    {<<N_SiteA, N_AcmeInc>>, <<N_SiteA, N_CasellaWaste>>},
    {<<N_SiteA, N_AcmeDisposal>>, <<N_SiteB, N_AcmeInc>>},
    {<<N_SiteA, N_AcmeInc>>, <<N_SiteB, N_ACME_INC>>},
    {<<N_SiteA, N_AcmeInc>>, <<N_SiteA, N_ACME_INC>>,
     <<N_SiteB, N_AcmeInc>>, <<N_SiteB, N_ACME_INC>>} }

\* invoice rows: [vendor_name, counterparty] as read from the file
Row(v, cp) == [vendor_name |-> v, counterparty |-> cp]

RowPool ==
  { Row(N_GFL, N_SiteB),
    Row(N_AcmeInc, N_SiteA),
    Row(N_AcmeUnderscoreInc, N_SiteA),
    Row(N_AcmeUnderscoreInc, N_SiteB),
    Row(N_ACME, N_SiteA) }

\* the longest invoice file
MaxRows == 2

RECURSIVE SeqsUpTo(_, _)
SeqsUpTo(S, n) ==
  IF n = 0 THEN {<<>>}
  ELSE LET shorter == SeqsUpTo(S, n - 1)
       IN  shorter \cup {Append(q, x) : q \in {r \in shorter : Len(r) = n - 1}, x \in S}

\* 'Waste' and 'Pro' with the vertical tab 0x0B between them
N_WasteVtPro == <<"W","a","s","t","e","","P","r","o">>

\* invoice files with missing cells, one whose third row alone has both
\* cells and one with no such row, and one with a vertical tab in the name
SpecialRowLists ==
  { << Row(NaN, N_Depot), Row(N_WASTE_PRO, NaN), Row(N_WASTE_PRO, N_Depot) >>,
    << Row(NaN, N_SiteA) >>,
    << Row(N_WasteVtPro, N_Depot) >> }

\* invoice files with a newline in a name, and with the name 'casella'
NamedRowLists ==
  { << Row(N_WasteNlPro, N_Depot) >>,
    << Row(N_WasteNlPro, N_Depot), Row(N_ACME, N_SiteA) >>,
    << Row(N_CasellaLower, N_SiteA) >>,
    << Row(N_CasellaLower, N_SiteA), Row(N_GFL, N_SiteB) >> }

RowLists ==
  (SeqsUpTo(RowPool, MaxRows) \ {<<>>}) \cup SpecialRowLists \cup NamedRowLists

\* ------------------------------------------------------------------------
\* State
\* ------------------------------------------------------------------------
VARIABLES
  pipeline,           \* the script that runs: "det", "v2" or "dash"
  clean_vendor_list,  \* the clean vendor names, in file order
  location_vendor,    \* the loaded <<location_name, vendor_name>> rows
  hash_order,         \* dict location -> its set of vendors as a list, in
                      \* the order in which that set iterates in this run
  invoices,           \* the invoice rows as read, in file order
  invoice_cp_vendor,  \* det, v2: the invoice rows after cleaning
  messy_vendors,      \* det: the unique cleaned vendor names, first seen first
  location_to_vendors,     \* det, v2: dict location -> set of vendors
  clean_lookup_exact,      \* det: dict exact key -> clean vendor
  clean_lookup_aggressive, \* det: dict aggressive key -> clean vendor
  location_vendor_lookup,  \* det: dict <<location key, vendor key>> -> vendor
  cp_to_location,     \* det: dict location key -> location name;
                      \* v2: dict counterparty -> location or NoLocation
  clean_vendors_lower,     \* dash: dict lower-cased name -> clean vendor
  location_vendors,   \* dash: dict location -> set of vendors
  pc,                 \* "build"; "match": in the matching loop; "report";
                      \* "done"; "crashed": stopped by an exception
  idx,                \* 1-based position of the matching loop
  normalization_map,  \* dict: messy vendor -> matched vendor
  flagged_invalid,    \* det: list of [vendor_name, reason, invoice_count]
  unmatched_valid,    \* det: list of unmatched names with their keys
  match_details,      \* det, v2: list of match detail records
  location_cache,     \* dash: dict counterparty -> location or NoLocation
  vendor_cache,       \* dash: dict vendor name -> vendor or NoVendor
  normalized_vendor,  \* dash: the normalized_vendor column, row by row
  input_name,         \* the name handed to is_invalid_name on its own
  verdict             \* what is_invalid_name returned for it, NoResult before

inputs == << pipeline, clean_vendor_list, location_vendor, hash_order, invoices >>

tables ==
  << invoice_cp_vendor, messy_vendors, location_to_vendors, clean_lookup_exact,
     clean_lookup_aggressive, location_vendor_lookup, cp_to_location,
     clean_vendors_lower, location_vendors >>

classifier == << input_name, verdict >>

vars ==
  << inputs, tables, pc, idx, normalization_map, flagged_invalid,
     unmatched_valid, match_details, location_cache, vendor_cache,
     normalized_vendor, classifier >>

\* iteration over the set of vendors of location loc (for v in vendors,
\* list(vendors)): some order of that set object, the same all run long; two
\* sets of the same vendors need not iterate alike
IterSet(loc) == hash_order[loc]

\* the value None where the code only tests it for truth (if not x), which
\* the empty string fails too
NoVendor == <<>>

NoLocation == <<>>

\* the first element of rs that is not NoResult, NoResult if there is none
FirstResult(rs) ==
  IF \A i \in DOMAIN rs : rs[i] = NoResult THEN NoResult
  ELSE rs[CHOOSE i \in DOMAIN rs :
            rs[i] # NoResult /\ \A j \in DOMAIN rs : rs[j] # NoResult => i <= j]

\* the first index of S
FirstIndex(S) == CHOOSE i \in S : \A j \in S : i <= j

\* ------------------------------------------------------------------------
\* Loading (rebuild_normalization_deterministic.py and
\* rebuild_normalization_map_v2.py load their files alike)
\* ------------------------------------------------------------------------
\* lines 94-95 raise on a location file with a column of missing cells only
LocationFileRaises(lv) ==
  AllMissing({p[1] : p \in lv}) \/ AllMissing({p[2] : p \in lv})

\* location_vendor with both columns stripped (Series.str.strip(): a missing
\* cell stays missing)
StrippedLocationVendor(lv) ==
  IF LocationFileRaises(lv) THEN Raised
  ELSE {<<IF p[1] = NaN THEN NaN ELSE Strip(p[1]),
          IF p[2] = NaN THEN NaN ELSE Strip(p[2])>> : p \in lv}

\* rows.groupby('location_name')['vendor_name'].apply(set).to_dict(): groupby
\* leaves out the rows whose location_name is missing
GroupVendors(rows) ==
  [loc \in {p[1] : p \in rows} \ {NaN} |-> {q[2] : q \in {r \in rows : r[1] = loc}}]

LoadLocationToVendors(lv) ==
  IF LocationFileRaises(lv) THEN Raised
  ELSE GroupVendors(StrippedLocationVendor(lv))

\* the keys of a groupby dict in dict order (groupby sorts them)
LocationNames(l2v) == SortedSeq(DOMAIN l2v)

\* the Series.str steps on vendor_name and counterparty raise on an invoice
\* file with a column of missing cells only
InvoiceFileRaises(rows) ==
  \/ AllMissing({rows[i].vendor_name : i \in 1..Len(rows)})
  \/ AllMissing({rows[i].counterparty : i \in 1..Len(rows)})

\* vendor_name: newline -> space, whitespace runs -> one space, strip;
\* counterparty: strip; a missing cell stays missing under these Series.str
\* steps.  Then dropna: the rows with a missing vendor_name or counterparty
\* are dropped (the empty string stays)
LoadInvoiceCpVendor(rows) ==
  IF InvoiceFileRaises(rows) THEN Raised
  ELSE SelectSeq([i \in 1..Len(rows) |->
                    Row(IF rows[i].vendor_name = NaN THEN NaN
                        ELSE Strip(CollapseWs(NewlinesToSpaces(rows[i].vendor_name))),
                        IF rows[i].counterparty = NaN THEN NaN
                        ELSE Strip(rows[i].counterparty))],
                 LAMBDA r : r.vendor_name # NaN /\ r.counterparty # NaN)

\* invoice_cp_vendor['vendor_name'].unique().tolist()
LoadMessyVendors(icv) == Unique([i \in 1..Len(icv) |-> icv[i].vendor_name])

\* ------------------------------------------------------------------------
\* rebuild_normalization_deterministic.py: lookup tables
\* ------------------------------------------------------------------------
NonEmptyKeys(items) == SelectSeq(items, LAMBDA it : it[1] # <<>>)

\* lines 182-186: the first vendor with a key keeps it
BuildCleanLookupExact(clean) ==
  DictFirst(NonEmptyKeys([i \in 1..Len(clean) |->
     <<normalize_for_lookup(clean[i]), clean[i]>>]))

\* lines 188-192
BuildCleanLookupAggressive(clean) ==
  DictFirst(NonEmptyKeys([i \in 1..Len(clean) |->
     <<normalize_aggressive(clean[i]), clean[i]>>]))

\* the two writes of lines 203-208 for vendor v at location key loc_norm
LocationVendorWritesOf(loc_norm, v) ==
  << << <<loc_norm, normalize_for_lookup(v)>>, v >>,
     << <<loc_norm, normalize_aggressive(v)>>, v >> >>

\* the writes for one location, its vendors in set order
LocationVendorWritesAt(loc_norm, vendors) ==
  Concat([vi \in 1..Len(vendors) |-> LocationVendorWritesOf(loc_norm, vendors[vi])])

\* the writes location_vendor_lookup[(loc_norm, key)] = v in program order,
\* those with an empty vendor key included
LocationVendorWrites(l2v, names) ==
  Concat([li \in 1..Len(names) |->
    LocationVendorWritesAt(normalize_for_lookup(names[li]), IterSet(names[li]))])

\* "if v_exact:", "if v_agg:": a write with an empty vendor key is skipped;
\* a later write to a key replaces the earlier one
BuildLocationVendorLookup(l2v) ==
  DictLast(SelectSeq(LocationVendorWrites(l2v, LocationNames(l2v)),
                     LAMBDA it : it[1][2] # <<>>))

\* lines 213-215: cp_to_location[normalize_for_lookup(loc)] = loc
BuildCpToLocation(names) ==
  DictLast([li \in 1..Len(names) |-> <<normalize_for_lookup(names[li]), names[li]>>])

\* ------------------------------------------------------------------------
\* rebuild_normalization_deterministic.py: the matching loop, one name
\* ------------------------------------------------------------------------
\* lines 285-305: the two lookups within the location
DetLocationLookup(messy_norm, messy_agg, location, loc_norm) ==
  IF <<loc_norm, messy_norm>> \in DOMAIN location_vendor_lookup
  THEN << location_vendor_lookup[<<loc_norm, messy_norm>>],
          "location_exact", location >>
  ELSE IF <<loc_norm, messy_agg>> \in DOMAIN location_vendor_lookup
  THEN << location_vendor_lookup[<<loc_norm, messy_agg>>],
          "location_normalized", location >>
  ELSE NoResult

\* lines 280-283: the counterparty key names a location or the row is passed
DetLocationAt(messy_norm, messy_agg, cp_norm) ==
  IF cp_norm \notin DOMAIN cp_to_location THEN NoResult
  ELSE DetLocationLookup(messy_norm, messy_agg, cp_to_location[cp_norm],
                         normalize_for_lookup(cp_to_location[cp_norm]))

\* lines 276-305 for one row of vendor_rows: <<vendor, method, location>> or
\* NoResult
DetLocationTry(messy_norm, messy_agg, cp) ==
  DetLocationAt(messy_norm, messy_agg, normalize_for_lookup(cp))

\* for _, row in vendor_rows.iterrows(): ... break on the first hit
DetLocationLoop(rows, messy_norm, messy_agg) ==
  FirstResult([i \in 1..Len(rows) |->
                 DetLocationTry(messy_norm, messy_agg, rows[i].counterparty)])

\* invoice_cp_vendor[invoice_cp_vendor['vendor_name'] == messy_vendor]
vendor_rows(messy_vendor) ==
  SelectSeq(invoice_cp_vendor, LAMBDA r : r.vendor_name = messy_vendor)

DetOutcome(kind, vendor, method, reason, location) ==
  [kind |-> kind, vendor |-> vendor, method |-> method, reason |-> reason,
   location |-> location]

\* a loop tail without lines 310-315: a name the location loop does not
\* match is recorded nowhere
DetAfterLocationSilent(byloc) ==
  IF byloc # NoResult
  THEN DetOutcome("matched", byloc[1], byloc[2], NoReason, byloc[3])
  ELSE DetOutcome("dropped", NoVendor, "", NoReason, NoLocation)

\* lines 307-315: a hit of the location loop is committed, or the name is
\* unmatched
DetAfterLocation(byloc) ==
  IF byloc # NoResult
  THEN DetOutcome("matched", byloc[1], byloc[2], NoReason, byloc[3])
  ELSE DetOutcome("unmatched", NoVendor, "", NoReason, NoLocation)

\* a loop body that consults the classifier before the override table
DetCascadeInvalidFirst(messy_vendor, invalid, messy_norm, messy_agg) ==
  IF invalid[1]
  THEN DetOutcome("invalid", NoVendor, "", invalid[2], NoLocation)
  ELSE IF InTable(DET_MANUAL_OVERRIDES, messy_vendor)
  THEN DetOutcome("matched", TableGet(DET_MANUAL_OVERRIDES, messy_vendor),
                  "manual_override", NoReason, NoLocation)
  ELSE IF messy_norm \in DOMAIN clean_lookup_exact
  THEN DetOutcome("matched", clean_lookup_exact[messy_norm],
                  "exact_match", NoReason, NoLocation)
  ELSE IF messy_agg \in DOMAIN clean_lookup_aggressive
  THEN DetOutcome("matched", clean_lookup_aggressive[messy_agg],
                  "normalized_match", NoReason, NoLocation)
  ELSE DetAfterLocation(
         DetLocationLoop(vendor_rows(messy_vendor), messy_norm, messy_agg))

\* lines 228-315 in order: override, classifier, exact key, aggressive key,
\* location loop
DetCascade(messy_vendor, invalid, messy_norm, messy_agg) ==
  IF InTable(DET_MANUAL_OVERRIDES, messy_vendor)
  THEN DetOutcome("matched", TableGet(DET_MANUAL_OVERRIDES, messy_vendor),
                  "manual_override", NoReason, NoLocation)
  ELSE IF invalid[1]
  THEN DetOutcome("invalid", NoVendor, "", invalid[2], NoLocation)
  ELSE IF messy_norm \in DOMAIN clean_lookup_exact
  THEN DetOutcome("matched", clean_lookup_exact[messy_norm],
                  "exact_match", NoReason, NoLocation)
  ELSE IF messy_agg \in DOMAIN clean_lookup_aggressive
  THEN DetOutcome("matched", clean_lookup_aggressive[messy_agg],
                  "normalized_match", NoReason, NoLocation)
  ELSE DetAfterLocation(
         DetLocationLoop(vendor_rows(messy_vendor), messy_norm, messy_agg))

\* One pass of the loop body: what becomes of messy_vendor
DetResolve(messy_vendor) ==
  DetCascade(messy_vendor, is_invalid_name(messy_vendor),
             normalize_for_lookup(messy_vendor), normalize_aggressive(messy_vendor))

\* the writes of one pass of the loop body with outcome o
DetCommit(messy_vendor, o) ==
  /\ normalization_map' =
       IF o.kind = "matched"
       THEN DictPut(normalization_map, messy_vendor, o.vendor)
       ELSE normalization_map
  /\ match_details' =
       IF o.kind = "matched"
       THEN Append(match_details,
                   [messy_vendor |-> messy_vendor, matched_vendor |-> o.vendor,
                    method |-> o.method, location |-> o.location])
       ELSE match_details
  /\ flagged_invalid' =
       IF o.kind = "invalid"
       THEN Append(flagged_invalid,
                   [vendor_name |-> messy_vendor, reason |-> o.reason])
       ELSE flagged_invalid
  /\ unmatched_valid' =
       IF o.kind = "unmatched"
       THEN Append(unmatched_valid,
                   [vendor_name |-> messy_vendor,
                    normalized |-> normalize_for_lookup(messy_vendor),
                    aggressive_normalized |-> normalize_aggressive(messy_vendor)])
       ELSE unmatched_valid

\* One iteration of "for messy_vendor in messy_vendors"
DetStep ==
  /\ pipeline = "det" /\ pc = "match" /\ idx <= Len(messy_vendors)
  /\ DetCommit(messy_vendors[idx], DetResolve(messy_vendors[idx]))
  /\ idx' = idx + 1
  /\ pc' = IF idx = Len(messy_vendors) THEN "report" ELSE "match"
  /\ UNCHANGED << inputs, classifier, tables, location_cache, vendor_cache, normalized_vendor >>

\* vendor_counts.get(name, 0)
InvoiceCount(name) ==
  Cardinality({i \in 1..Len(invoice_cp_vendor) : invoice_cp_vendor[i].vendor_name = name})

\* list.sort(key=lambda x: -x['invoice_count']): stable, largest count first
RECURSIVE InsertByCount(_, _)
InsertByCount(x, xs) ==
  IF xs = <<>> THEN <<x>>
  ELSE IF x.invoice_count > Head(xs).invoice_count THEN <<x>> \o xs
  ELSE <<Head(xs)>> \o InsertByCount(x, Tail(xs))

RECURSIVE SortByCount(_)
SortByCount(xs) ==
  IF xs = <<>> THEN <<>>
  ELSE InsertByCount(xs[Len(xs)], SortByCount(SubSeq(xs, 1, Len(xs) - 1)))

\* lines 322-332: the occurrence counts and the two sorts
DetReport ==
  /\ pipeline = "det" /\ pc = "report"
  /\ flagged_invalid' =
       SortByCount([i \in 1..Len(flagged_invalid) |->
          [vendor_name |-> flagged_invalid[i].vendor_name,
           reason |-> flagged_invalid[i].reason,
           invoice_count |-> InvoiceCount(flagged_invalid[i].vendor_name)]])
  /\ unmatched_valid' =
       SortByCount([i \in 1..Len(unmatched_valid) |->
          [vendor_name |-> unmatched_valid[i].vendor_name,
           normalized |-> unmatched_valid[i].normalized,
           aggressive_normalized |-> unmatched_valid[i].aggressive_normalized,
           invoice_count |-> InvoiceCount(unmatched_valid[i].vendor_name)]])
  /\ pc' = "done"
  /\ UNCHANGED << inputs, classifier, tables, idx, normalization_map, match_details,
                  location_cache, vendor_cache, normalized_vendor >>

\* ------------------------------------------------------------------------
\* rebuild_normalization_map_v2.py: matching functions
\* ------------------------------------------------------------------------
\* the keys of a dict built from items, in insertion order
DictKeys(items) == Unique([i \in 1..Len(items) |-> items[i][1]])

\* lines 147-160: token sort at the threshold, then partial ratio at
\* partial_threshold, the 90 of line 159
find_best_match_fuzzy(threshold, partial_threshold, candidates_norm, result, result_partial) ==
  IF ScoreGE(result[2], threshold)
  THEN <<candidates_norm[result[1]], result[2]>>
  ELSE IF ScoreGE(result_partial[2], partial_threshold)
  THEN <<candidates_norm[result_partial[1]], result_partial[2]>>
  ELSE <<NoVendor, Score0>>

\* lines 126-145: exact is the candidates equal after clean_name().upper(),
\* normd those with the same normalize_name, items the pairs of
\* {normalize_name(v): v for v in candidate_vendors if normalize_name(v)}
find_best_match_stages(candidate_vendors, threshold, partial_threshold, messy_norm, exact, normd, items) ==
  IF exact # {} THEN <<candidate_vendors[FirstIndex(exact)], Score100>>
  ELSE IF normd # {} THEN <<candidate_vendors[FirstIndex(normd)], Score100>>
  ELSE IF items = <<>> THEN <<NoVendor, Score0>>
  ELSE find_best_match_fuzzy(
         threshold, partial_threshold, DictLast(items),
         extractOne(messy_norm, DictKeys(items), "token_sort_ratio"),
         extractOne(messy_norm, DictKeys(items), "partial_ratio"))

find_best_match_keys(candidate_vendors, threshold, partial_threshold, messy_clean, messy_norm) ==
  find_best_match_stages(
    candidate_vendors, threshold, partial_threshold, messy_norm,
    {i \in 1..Len(candidate_vendors) :
       Upper(clean_name(candidate_vendors[i])) = Upper(messy_clean)},
    {i \in 1..Len(candidate_vendors) :
       normalize_name(candidate_vendors[i]) = messy_norm},
    NonEmptyKeys([i \in 1..Len(candidate_vendors) |->
       <<normalize_name(candidate_vendors[i]), candidate_vendors[i]>>]))

\* find_best_match(messy_name, candidate_vendors, threshold), the candidates
\* in iteration order: <<vendor, score>>, <<NoVendor, Score0>> for (None, 0).
\* partial_threshold stands for the literal 90 of line 159
find_best_match(messy_name, candidate_vendors, threshold, partial_threshold) ==
  IF candidate_vendors = <<>> THEN <<NoVendor, Score0>>
  ELSE find_best_match_keys(candidate_vendors, threshold, partial_threshold,
                            clean_name(messy_name), normalize_name(messy_name))

\* lines 176-187: the fuzzy result is mapped back to the first location with
\* that normalized name
find_location_match_fuzzy(location_names, norms, threshold, result) ==
  IF result # NoResult /\ ScoreGE(result[2], threshold)
  THEN location_names[FirstIndex({i \in 1..Len(norms) : norms[i] = result[1]})]
  ELSE NoLocation

find_location_match_stages(location_names, threshold, cp_norm, norms) ==
  IF \E i \in 1..Len(norms) : norms[i] = cp_norm
  THEN location_names[FirstIndex({i \in 1..Len(norms) : norms[i] = cp_norm})]
  ELSE find_location_match_fuzzy(
         location_names, norms, threshold,
         extractOne(cp_norm, norms, "token_sort_ratio"))

\* find_location_match(counterparty, location_names, threshold=80); lines
\* 166-167: None for a missing counterparty
find_location_match(counterparty, location_names, threshold) ==
  IF counterparty = NaN THEN NoLocation
  ELSE find_location_match_stages(
         location_names, threshold, normalize_name(counterparty),
         [i \in 1..Len(location_names) |-> normalize_name(location_names[i])])

\* matches.sort(key=lambda x: (100-x[1], len(x[0]))): stable, the higher
\* score first, and among equal scores the shorter name
PartialBefore(x, y) ==
  \/ x[2] > y[2]
  \/ (x[2] = y[2] /\ Len(x[1]) < Len(y[1]))

RECURSIVE InsertPartial(_, _)
InsertPartial(x, xs) ==
  IF xs = <<>> THEN <<x>>
  ELSE IF PartialBefore(x, Head(xs)) THEN <<x>> \o xs
  ELSE <<Head(xs)>> \o InsertPartial(x, Tail(xs))

RECURSIVE SortPartial(_)
SortPartial(xs) ==
  IF xs = <<>> THEN <<>>
  ELSE InsertPartial(xs[Len(xs)], SortPartial(SubSeq(xs, 1, Len(xs) - 1)))

\* lines 201-205: 95 when the vendor starts with the name, 90 when its
\* first word contains it, 0 for no entry
PartialHit(v_upper, messy_upper) ==
  IF StartsWith(v_upper, messy_upper) THEN 95
  ELSE IF Split(v_upper) # <<>> /\ Contains(Split(v_upper)[1], messy_upper) THEN 90
  ELSE 0

\* lines 207-212: matches[0] after the sort
try_partial_name_match_best(sorted) ==
  IF sorted = <<>> THEN <<NoVendor, Score0>>
  ELSE <<sorted[1][1], <<sorted[1][2], 1>>>>

try_partial_name_match_clean(vendor_list, min_length, messy_clean) ==
  IF Len(messy_clean) < min_length THEN <<NoVendor, Score0>>
  ELSE try_partial_name_match_best(SortPartial(
         SelectSeq([i \in 1..Len(vendor_list) |->
                      <<vendor_list[i],
                        PartialHit(Upper(vendor_list[i]), Upper(messy_clean))>>],
                   LAMBDA m : m[2] > 0)))

\* try_partial_name_match(messy_name, clean_vendor_list, min_length=4):
\* <<vendor, score>> with the score 95 or 90 as <<95, 1>> or <<90, 1>>
try_partial_name_match(messy_name, vendor_list, min_length) ==
  try_partial_name_match_clean(vendor_list, min_length, clean_name(messy_name))

\* ------------------------------------------------------------------------
\* rebuild_normalization_map_v2.py: the normalization map
\* ------------------------------------------------------------------------
\* The acceptance thresholds of the script: threshold=80 of
\* find_location_match (line 164), the 65 and 80 passed to find_best_match
\* (lines 268 and 274), the partial ratio 90 (line 159) and min_length=4 of
\* try_partial_name_match (line 189)
V2Thresholds ==
  [location |-> 80, constrained |-> 65, global |-> 80, partial_ratio |-> 90,
   min_length |-> 4]

\* lines 221-229: cp_to_location[cp] = find_location_match(cp, location_names)
\* for every counterparty of the invoices
BuildCounterpartyLocations(icv, location_names) ==
  [cp \in {icv[i].counterparty : i \in 1..Len(icv)} |->
     find_location_match(cp, location_names, V2Thresholds.location)]

V2Outcome(vendor, score, method) ==
  [vendor |-> vendor, score |-> score, method |-> method]

\* lines 276-280: stage 4, the partial name match
V2AfterPartial(partial) ==
  IF partial[1] # NoVendor THEN V2Outcome(partial[1], partial[2], "partial")
  ELSE V2Outcome(NoVendor, partial[2], "")

\* lines 270-274: stage 3, the global match at threshold 80
V2AfterGlobal(messy_vendor_clean, global, th) ==
  IF global[1] # NoVendor THEN V2Outcome(global[1], global[2], "global")
  ELSE V2AfterPartial(try_partial_name_match(messy_vendor_clean,
                                             clean_vendor_list, th.min_length))

\* lines 261-268: stage 2, the match constrained to the location's vendors
V2AfterConstrained(messy_vendor_clean, constrained, th) ==
  IF constrained[1] # NoVendor
  THEN V2Outcome(constrained[1], constrained[2], "constrained")
  ELSE V2AfterGlobal(messy_vendor_clean,
                     find_best_match(messy_vendor_clean, clean_vendor_list,
                                     th.global, th.partial_ratio),
                     th)

\* V2Resolve without the fall through of line 273: a name whose counterparty
\* has a location is matched among the vendors of the location or not at all
V2ConstrainedOnly(constrained) ==
  IF constrained[1] # NoVendor
  THEN V2Outcome(constrained[1], constrained[2], "constrained")
  ELSE V2Outcome(NoVendor, Score0, "")

V2ResolveLocationOnly(messy_vendor_clean, location, th) ==
  IF InTable(V2_MANUAL_OVERRIDES, messy_vendor_clean)
     /\ TableGet(V2_MANUAL_OVERRIDES, messy_vendor_clean) # NoVendor
  THEN V2Outcome(TableGet(V2_MANUAL_OVERRIDES, messy_vendor_clean),
                 Score100, "manual")
  ELSE IF location # NoLocation /\ location \in DOMAIN location_to_vendors
  THEN V2ConstrainedOnly(
         find_best_match(messy_vendor_clean,
                         IterSet(location),
                         th.constrained, th.partial_ratio))
  ELSE V2AfterConstrained(messy_vendor_clean, <<NoVendor, Score0>>, th)

\* lines 253-282 for one row: the stages manual, constrained, global, partial,
\* at the thresholds th
V2Resolve(messy_vendor_clean, location, th) ==
  IF InTable(V2_MANUAL_OVERRIDES, messy_vendor_clean)
     /\ TableGet(V2_MANUAL_OVERRIDES, messy_vendor_clean) # NoVendor
  THEN V2Outcome(TableGet(V2_MANUAL_OVERRIDES, messy_vendor_clean),
                 Score100, "manual")
  ELSE V2AfterConstrained(
         messy_vendor_clean,
         IF location # NoLocation /\ location \in DOMAIN location_to_vendors
         THEN find_best_match(messy_vendor_clean,
                              IterSet(location),
                              th.constrained, th.partial_ratio)
         ELSE <<NoVendor, Score0>>,
         th)

\* cp_to_location.get(counterparty)
V2Location(counterparty) ==
  IF counterparty \in DOMAIN cp_to_location THEN cp_to_location[counterparty]
  ELSE NoLocation

\* V2Commit without the skip of lines 249-250: a name already mapped is
\* resolved and written again
V2CommitAgain(messy_vendor, messy_vendor_clean, counterparty, o) ==
  IF o.vendor = NoVendor
  THEN UNCHANGED << normalization_map, match_details >>
  ELSE /\ normalization_map' =
            IF messy_vendor # messy_vendor_clean
            THEN DictPut(DictPut(normalization_map, messy_vendor_clean, o.vendor),
                         messy_vendor, o.vendor)
            ELSE DictPut(normalization_map, messy_vendor_clean, o.vendor)
       /\ match_details' =
            Append(match_details,
                   [messy_vendor |-> messy_vendor_clean,
                    matched_vendor |-> o.vendor,
                    score |-> o.score,
                    method |-> o.method,
                    counterparty |-> counterparty,
                    location |-> V2Location(counterparty)])

\* lines 247-296: the skip of a name already mapped, and the writes
V2Commit(messy_vendor, messy_vendor_clean, counterparty, o) ==
  IF messy_vendor_clean \in DOMAIN normalization_map \/ o.vendor = NoVendor
  THEN UNCHANGED << normalization_map, match_details >>
  ELSE /\ normalization_map' =
            IF messy_vendor # messy_vendor_clean
            THEN DictPut(DictPut(normalization_map, messy_vendor_clean, o.vendor),
                         messy_vendor, o.vendor)
            ELSE DictPut(normalization_map, messy_vendor_clean, o.vendor)
       /\ match_details' =
            Append(match_details,
                   [messy_vendor |-> messy_vendor_clean,
                    matched_vendor |-> o.vendor,
                    score |-> o.score,
                    method |-> o.method,
                    counterparty |-> counterparty,
                    location |-> V2Location(counterparty)])

V2Row(row) ==
  V2Commit(row.vendor_name, clean_name(row.vendor_name), row.counterparty,
           V2Resolve(clean_name(row.vendor_name), V2Location(row.counterparty),
                     V2Thresholds))

\* One iteration of "for i, (_, row) in enumerate(invoice_cp_vendor.iterrows())"
V2Step ==
  /\ pipeline = "v2" /\ pc = "match" /\ idx <= Len(invoice_cp_vendor)
  /\ V2Row(invoice_cp_vendor[idx])
  /\ idx' = idx + 1
  /\ pc' = IF idx = Len(invoice_cp_vendor) THEN "done" ELSE "match"
  /\ UNCHANGED << inputs, classifier, tables, flagged_invalid, unmatched_valid,
                  location_cache, vendor_cache, normalized_vendor >>

\* ------------------------------------------------------------------------
\* update_dashboard.py: match_vendor
\* ------------------------------------------------------------------------
\* clean_vendors_lower = {v.lower(): v for v in clean_vendors}
BuildCleanVendorsLower(clean_vendors) ==
  DictLast([i \in 1..Len(clean_vendors) |-> <<Lower(clean_vendors[i]), clean_vendors[i]>>])

\* lines 30-31: location_vendors, grouped from the rows whose location_name
\* is a str.  On a sheet without rows the mask of line 30 is an empty Series
\* of dtype object, which selects columns, not rows: services is left without
\* columns and groupby('location_name') raises KeyError
LoadLocationVendors(services) ==
  IF services = {} THEN Raised
  ELSE GroupVendors({r \in services : r[1] # NaN})

\* all_locations = list(location_vendors.keys())
all_locations == SortedSeq(DOMAIN location_vendors)

\* The acceptance thresholds of match_vendor: the location at 75 (line 85),
\* the location-constrained token sort ratio at 35 and partial ratio at 50
\* (lines 98 and 102), the strict global match at 80 (line 125)
DashThresholds ==
  [location |-> 75, constrained |-> 35, partial_ratio |-> 50, global |-> 80]

\* location_vendors.get(loc) when loc is true: the set of vendors of loc as
\* the list of its elements in the order the set iterates, <<>> for None
DashVendorsAt(loc) ==
  IF loc # NoLocation /\ loc \in DOMAIN location_vendors
  THEN IterSet(loc) ELSE <<>>

\* lines 85-88: the location is cached, found or not
DashCacheLocation(cp, lcache, loc) ==
  <<DashVendorsAt(loc), DictPut(lcache, cp, loc)>>

\* lines 83-84: the best location at 75 or more, else None
DashFuzzyLocation(cp, lcache, match, th) ==
  DashCacheLocation(cp, lcache,
                    IF match # NoResult /\ ScoreGE(match[2], th.location)
                    THEN match[1] ELSE NoLocation)

\* lines 77-88: <<candidates, location_cache>>; candidates is <<>> for None
DashCandidates(cp, lcache, th) ==
  IF DashVendorsAt(cp) # <<>> THEN <<DashVendorsAt(cp), lcache>>
  ELSE IF cp \in DOMAIN lcache THEN <<DashVendorsAt(lcache[cp]), lcache>>
  ELSE DashFuzzyLocation(cp, lcache,
                         extractOne(cp, all_locations, "token_sort_ratio"), th)

\* lines 101-103: partial ratio at 50
DashStage1Partial(match2, th) ==
  IF ScoreGE(match2[2], th.partial_ratio) THEN <<TRUE, match2[1]>> ELSE <<FALSE, NoVendor>>

\* lines 97-103: token sort ratio at 35, then partial ratio
DashStage1Fuzzy(vn, cands, match, th) ==
  IF ScoreGE(match[2], th.constrained) THEN <<TRUE, match[1]>>
  ELSE DashStage1Partial(extractOne(vn, cands, "partial_ratio"), th)

\* lines 90-103: <<TRUE, vendor>> when stage 1 returns, <<FALSE, NoVendor>>
\* when it falls through to stage 2
DashStage1(vn, candidates, th) ==
  IF candidates = <<>> THEN <<FALSE, NoVendor>>
  ELSE IF Len(candidates) = 1 THEN <<TRUE, candidates[1]>>
  ELSE IF vn = <<>> THEN <<FALSE, NoVendor>>
  ELSE DashStage1Fuzzy(vn, candidates,
                       extractOne(vn, candidates, "token_sort_ratio"),
                       th)

\* DashStage2Fuzzy caching the best candidate of a miss in place of None
DashStage2FuzzyCachesBest(vn, vcache, match, th) ==
  IF match # NoResult /\ ScoreGE(match[2], th.global)
  THEN <<match[1], DictPut(vcache, vn, match[1])>>
  ELSE <<Unmatched, DictPut(vcache, vn, IF match # NoResult THEN match[1] ELSE NoVendor)>>

\* lines 123-129: strict fuzzy at 80, else the miss is cached
DashStage2Fuzzy(vn, vcache, match, th) ==
  IF match # NoResult /\ ScoreGE(match[2], th.global)
  THEN <<match[1], DictPut(vcache, vn, match[1])>>
  ELSE <<Unmatched, DictPut(vcache, vn, NoVendor)>>

\* lines 117-121: the first clean vendor with the same normalized form
DashStage2Normalized(vn, vcache, normd, th) ==
  IF normd # {}
  THEN <<clean_vendor_list[FirstIndex(normd)],
         DictPut(vcache, vn, clean_vendor_list[FirstIndex(normd)])>>
  ELSE DashStage2Fuzzy(vn, vcache,
                       extractOne(vn, clean_vendor_list, "token_sort_ratio"),
                       th)

\* lines 111-121: the exact lower-case match, then the normalized one
DashStage2Exact(vn, vcache, vn_lower, vn_norm, th) ==
  IF vn_lower \in DOMAIN clean_vendors_lower
  THEN <<clean_vendors_lower[vn_lower],
         DictPut(vcache, vn, clean_vendors_lower[vn_lower])>>
  ELSE DashStage2Normalized(
         vn, vcache,
         {i \in 1..Len(clean_vendor_list) :
            normalize_for_match(clean_vendor_list[i]) = vn_norm},
         th)

\* lines 106-131: <<returned value, vendor_cache>>
DashStage2(vn, vcache, th) ==
  IF vn = <<>> THEN <<Unmatched, vcache>>
  ELSE IF vn \in DOMAIN vcache
  THEN (IF vcache[vn] # NoVendor THEN <<vcache[vn], vcache>>
        ELSE <<Unmatched, vcache>>)
  ELSE DashStage2Exact(vn, vcache, Lower(vn), normalize_for_match(vn), th)

DashResult(result, stage, lcache, vcache) ==
  [result |-> result, stage |-> stage, location_cache |-> lcache,
   vendor_cache |-> vcache]

MatchVendorDirect(lcache, s2) == DashResult(s2[1], 2, lcache, s2[2])

MatchVendorStage1(vn, lcache, vcache, s1, th) ==
  IF s1[1] THEN DashResult(s1[2], 1, lcache, vcache)
  ELSE MatchVendorDirect(lcache, DashStage2(vn, vcache, th))

MatchVendorLocated(vn, vcache, located, th) ==
  MatchVendorStage1(vn, located[2], vcache, DashStage1(vn, located[1], th), th)

\* match_vendor(row) with the two caches as they stand, at the thresholds
\* th: [result, stage, location_cache, vendor_cache]
match_vendor(row, lcache, vcache, th) ==
  MatchVendorLocated(clean_vendor_name(row.vendor_name), vcache,
                     IF row.counterparty # NaN /\ row.counterparty # <<>>
                     THEN DashCandidates(row.counterparty, lcache, th)
                     ELSE <<<<>>, lcache>>,
                     th)

DashCommit(m) ==
  /\ normalized_vendor' = Append(normalized_vendor, m.result)
  /\ location_cache' = m.location_cache
  /\ vendor_cache' = m.vendor_cache

\* invoices.apply(match_vendor, axis=1), one row
DashStep ==
  /\ pipeline = "dash" /\ pc = "match" /\ idx <= Len(invoices)
  /\ DashCommit(match_vendor(invoices[idx], location_cache, vendor_cache,
                             DashThresholds))
  /\ idx' = idx + 1
  /\ pc' = IF idx = Len(invoices) THEN "done" ELSE "match"
  /\ UNCHANGED << inputs, classifier, tables, normalization_map, flagged_invalid,
                  unmatched_valid, match_details >>

\* ------------------------------------------------------------------------
\* The runs: one script over one set of input files.  A run starts with the
\* files read, builds the script's lookup tables and enters the matching loop
\* ------------------------------------------------------------------------
\* the dict location -> set of vendors that the script p builds
VendorSets(p, lv) ==
  IF p = "dash" THEN (IF lv = {} THEN EmptyDict ELSE LoadLocationVendors(lv))
  ELSE IF LocationFileRaises(lv) THEN EmptyDict
  ELSE LoadLocationToVendors(lv)

\* the ways the sets of d can iterate: each set in one of its orders
SetOrders(d) ==
  {f \in [DOMAIN d -> UNION {Perms(d[k]) : k \in DOMAIN d}] :
     \A k \in DOMAIN d : f[k] \in Perms(d[k])}

Init ==
  /\ pipeline \in {"det", "v2", "dash"}
  /\ clean_vendor_list \in RefLists
  /\ location_vendor \in LocRelations
  /\ hash_order \in SetOrders(VendorSets(pipeline, location_vendor))
  /\ invoices \in RowLists
  /\ invoice_cp_vendor = <<>>
  /\ messy_vendors = <<>>
  /\ location_to_vendors = EmptyDict
  /\ clean_lookup_exact = EmptyDict
  /\ clean_lookup_aggressive = EmptyDict
  /\ location_vendor_lookup = EmptyDict
  /\ cp_to_location = EmptyDict
  /\ clean_vendors_lower = EmptyDict
  /\ location_vendors = EmptyDict
  /\ pc = "build"
  /\ idx = 1
  /\ normalization_map = EmptyDict
  /\ flagged_invalid = <<>>
  /\ unmatched_valid = <<>>
  /\ match_details = <<>>
  /\ location_cache = EmptyDict
  /\ vendor_cache = EmptyDict
  /\ normalized_vendor = <<>>
  /\ input_name = <<>>
  /\ verdict = NoResult

results ==
  << idx, normalization_map, flagged_invalid, unmatched_valid, match_details,
     location_cache, vendor_cache, normalized_vendor >>

\* rebuild_normalization_deterministic.py lines 89-215: the cleaned invoice
\* rows, the unique messy names and the lookup tables; the script stops at
\* line 94 or 95, or at lines 105-108, when the load raises
DetBuild ==
  /\ pipeline = "det" /\ pc = "build"
  /\ IF LocationFileRaises(location_vendor)
     THEN /\ pc' = "crashed"
          /\ UNCHANGED << invoice_cp_vendor, messy_vendors, location_to_vendors,
                          clean_lookup_exact, clean_lookup_aggressive,
                          location_vendor_lookup, cp_to_location >>
     ELSE IF InvoiceFileRaises(invoices)
     THEN /\ location_to_vendors' = LoadLocationToVendors(location_vendor)
          /\ pc' = "crashed"
          /\ UNCHANGED << invoice_cp_vendor, messy_vendors, clean_lookup_exact,
                          clean_lookup_aggressive, location_vendor_lookup,
                          cp_to_location >>
     ELSE /\ invoice_cp_vendor' = LoadInvoiceCpVendor(invoices)
          /\ messy_vendors' = LoadMessyVendors(invoice_cp_vendor')
          /\ location_to_vendors' = LoadLocationToVendors(location_vendor)
          /\ clean_lookup_exact' = BuildCleanLookupExact(clean_vendor_list)
          /\ clean_lookup_aggressive' = BuildCleanLookupAggressive(clean_vendor_list)
          /\ location_vendor_lookup' = BuildLocationVendorLookup(location_to_vendors')
          /\ cp_to_location' = BuildCpToLocation(LocationNames(location_to_vendors'))
          /\ pc' = IF messy_vendors' = <<>> THEN "report" ELSE "match"
  /\ UNCHANGED << inputs, classifier, clean_vendors_lower, location_vendors, results >>

\* rebuild_normalization_map_v2.py lines 63-93 and 221-229: the cleaned
\* invoice rows, the vendors of each location and the location of each
\* counterparty; the script stops at line 71 or 72, or at lines 82-85, when
\* the load raises
V2Build ==
  /\ pipeline = "v2" /\ pc = "build"
  /\ IF LocationFileRaises(location_vendor)
     THEN /\ pc' = "crashed"
          /\ UNCHANGED << invoice_cp_vendor, location_to_vendors, cp_to_location >>
     ELSE IF InvoiceFileRaises(invoices)
     THEN /\ location_to_vendors' = LoadLocationToVendors(location_vendor)
          /\ pc' = "crashed"
          /\ UNCHANGED << invoice_cp_vendor, cp_to_location >>
     ELSE /\ invoice_cp_vendor' = LoadInvoiceCpVendor(invoices)
          /\ location_to_vendors' = LoadLocationToVendors(location_vendor)
          /\ cp_to_location' =
               BuildCounterpartyLocations(invoice_cp_vendor',
                                          LocationNames(location_to_vendors'))
          /\ pc' = IF invoice_cp_vendor' = <<>> THEN "done" ELSE "match"
  /\ UNCHANGED << inputs, classifier, messy_vendors, clean_lookup_exact,
                  clean_lookup_aggressive, location_vendor_lookup,
                  clean_vendors_lower, location_vendors, results >>

\* update_dashboard.py lines 27-32: the reference data; the script stops at
\* line 31 when the location sheet has no rows
DashBuild ==
  /\ pipeline = "dash" /\ pc = "build"
  /\ clean_vendors_lower' = BuildCleanVendorsLower(clean_vendor_list)
  /\ IF location_vendor = {}
     THEN pc' = "crashed" /\ UNCHANGED location_vendors
     ELSE /\ location_vendors' = LoadLocationVendors(location_vendor)
          /\ pc' = "match"
  /\ UNCHANGED << inputs, classifier, invoice_cp_vendor, messy_vendors, location_to_vendors,
                  clean_lookup_exact, clean_lookup_aggressive,
                  location_vendor_lookup, cp_to_location, results >>

Next ==
  \/ DetBuild \/ DetStep \/ DetReport
  \/ V2Build \/ V2Step
  \/ DashBuild \/ DashStep

Spec == Init /\ [][Next]_vars

\* ------------------------------------------------------------------------
\* is_invalid_name on its own: one name in, one verdict out
\* ------------------------------------------------------------------------
\* the longest name built from the alphabet
MaxNameLen == 5

\* The names are those the loop hands to is_invalid_name (line 239): the
\* vendor names of the invoice file after lines 105 to 107, where every
\* newline became a space, every run of whitespace one space, and the ends
\* were stripped.
\* characters that reach every rule: ASCII letters of both cases (the letters
\* of INC), a digit, the dot and a letter outside ASCII
NameAlphabet == {"I", "n", "C", "1", ".", "É"}

RECURSIVE NamesOfLen(_)
NamesOfLen(n) ==
  IF n = 0 THEN {<<>>}
  ELSE {Append(s, c) : s \in NamesOfLen(n - 1), c \in NameAlphabet}

N_AB == <<"A","B">>

N_123 == <<"1","2","3">>

N_waste == <<"w","a","s","t","e">>

N_CORPdot == <<"C","O","R","P",".">>

\* a name of five letters, none of them of ASCII
N_AccentedCapitals == <<"À","É","Î","Õ","Ü">>

\* a name whose first letter is a lower-case letter outside ASCII
N_ecole == <<"é","c","o","l","e">>

ClassifierNames ==
  UNION {NamesOfLen(n) : n \in 0..MaxNameLen}
    \cup {N_AB, N_123, N_waste, N_CORPdot, N_AccentedCapitals, N_ecole,
          N_AcmeDisposal, N_GFL, N_CasellaLower}

InitClassifier ==
  /\ input_name \in ClassifierNames
  /\ verdict = NoResult
  /\ pipeline = "classifier"
  /\ clean_vendor_list = <<>>
  /\ location_vendor = {}
  /\ hash_order = <<>>
  /\ invoices = <<>>
  /\ invoice_cp_vendor = <<>>
  /\ messy_vendors = <<>>
  /\ location_to_vendors = EmptyDict
  /\ clean_lookup_exact = EmptyDict
  /\ clean_lookup_aggressive = EmptyDict
  /\ location_vendor_lookup = EmptyDict
  /\ cp_to_location = EmptyDict
  /\ clean_vendors_lower = EmptyDict
  /\ location_vendors = EmptyDict
  /\ pc = "classify"
  /\ idx = 1
  /\ normalization_map = EmptyDict
  /\ flagged_invalid = <<>>
  /\ unmatched_valid = <<>>
  /\ match_details = <<>>
  /\ location_cache = EmptyDict
  /\ vendor_cache = EmptyDict
  /\ normalized_vendor = <<>>

\* is_invalid, reason = is_invalid_name(name)
Classify ==
  /\ pipeline = "classifier" /\ pc = "classify"
  /\ verdict' = is_invalid_name(input_name)
  /\ pc' = "done"
  /\ UNCHANGED << inputs, tables, results, input_name >>

NextClassifier == Classify

SpecClassifier == InitClassifier /\ [][NextClassifier]_vars

\* ------------------------------------------------------------------------
\* The runs over a second set of input files: the clean vendors 'Waste Pro'
\* with 'Casella Waste' or 'Ewaste', at most one location, and invoices whose
\* names are an override key, a bare first word, short names and a name that
\* no clean vendor resembles; the location file may hold a row whose
\* location_name is missing
\* ------------------------------------------------------------------------
N_Ewaste == <<"E","w","a","s","t","e">>

N_Waste == <<"W","a","s","t","e">>

N_CASELLA == <<"C","A","S","E","L","L","A">>

N_xyz == <<"x","y","z">>

N_QQ == <<"?","?">>

ScenarioRowPool ==
  { Row(N_CASELLA, N_Depot), Row(N_Waste, N_Depot),
    Row(N_AcmeUnderscoreInc, N_Depot), Row(N_AcmeUnderscoreInc, N_SiteA) }

\* the invoice file with the four names 'WASTE PRO', 'CASELLA', 'xyz', '??'
EndToEndRows ==
  << Row(N_WASTE_PRO, N_Depot), Row(N_CASELLA, N_Depot), Row(N_xyz, N_Depot),
     Row(N_QQ, N_Depot) >>

ScenarioRowLists ==
  (SeqsUpTo(ScenarioRowPool, MaxRows) \ {<<>>})
    \cup {EndToEndRows} \cup SpecialRowLists

\* update_dashboard.py alone is also run with a location of two vendors and
\* with rows of raw_invoices.csv whose counterparty is missing or empty
InitScenario ==
  /\ pipeline \in {"det", "v2", "dash"}
  /\ clean_vendor_list \in {<<N_WastePro, N_CasellaWaste>>, <<N_WastePro, N_Ewaste>>}
  /\ location_vendor \in
       {{}, {<<N_SiteA, N_AcmeDisposal>>},
        {<<NaN, N_WastePro>>, <<N_SiteA, N_AcmeDisposal>>}}
         \cup (IF pipeline = "dash"
               THEN {{<<N_SiteA, N_AcmeDisposal>>, <<N_SiteA, N_CasellaWaste>>}}
               ELSE {})
  /\ hash_order \in SetOrders(VendorSets(pipeline, location_vendor))
  /\ invoices \in
       ScenarioRowLists
         \cup (IF pipeline = "dash"
               THEN SeqsUpTo({ Row(N_WASTE_PRO, NaN), Row(N_WASTE_PRO, N_SiteA),
                               Row(N_CASELLA, <<>>), Row(N_CASELLA, N_SiteA) },
                             MaxRows) \ {<<>>}
               ELSE {})
  /\ invoice_cp_vendor = <<>>
  /\ messy_vendors = <<>>
  /\ location_to_vendors = EmptyDict
  /\ clean_lookup_exact = EmptyDict
  /\ clean_lookup_aggressive = EmptyDict
  /\ location_vendor_lookup = EmptyDict
  /\ cp_to_location = EmptyDict
  /\ clean_vendors_lower = EmptyDict
  /\ location_vendors = EmptyDict
  /\ pc = "build"
  /\ idx = 1
  /\ normalization_map = EmptyDict
  /\ flagged_invalid = <<>>
  /\ unmatched_valid = <<>>
  /\ match_details = <<>>
  /\ location_cache = EmptyDict
  /\ vendor_cache = EmptyDict
  /\ normalized_vendor = <<>>
  /\ input_name = <<>>
  /\ verdict = NoResult

SpecScenario == InitScenario /\ [][Next]_vars

\* ------------------------------------------------------------------------
\* The override layer (C1)
\* ------------------------------------------------------------------------
\* the names the matching loop has passed
DetProcessed == {messy_vendors[k] : k \in 1..(idx - 1)}

V2ProcessedRows == {invoice_cp_vendor[k] : k \in 1..(idx - 1)}

\* the vendor names of a report
ReportNames(report) == {report[i].vendor_name : i \in 1..Len(report)}

\* the target of key k in an override table
OverrideTarget(table, k) == CHOOSE v \in Range(table) : v[1] = k

\* C1: a name that is verbatim a key of the override table resolves to that
\* override's target by the manual method (with score 100 where a score is
\* recorded), whatever the reference list, the location relation and the
\* counterparty are, and it is in neither the invalid nor the unmatched
\* report even when the classifier would flag it.
C1_OverrideWins ==
  /\ pipeline = "det" =>
       \A mv \in DetProcessed :
         InTable(DET_MANUAL_OVERRIDES, mv) =>
           /\ mv \in DOMAIN normalization_map
           /\ normalization_map[mv] = OverrideTarget(DET_MANUAL_OVERRIDES, mv)[2]
           /\ \E i \in 1..Len(match_details) :
                /\ match_details[i].messy_vendor = mv
                /\ match_details[i].matched_vendor = normalization_map[mv]
                /\ match_details[i].method = "manual_override"
           /\ mv \notin ReportNames(flagged_invalid)
           /\ mv \notin ReportNames(unmatched_valid)
  /\ pipeline = "v2" =>
       \A r \in V2ProcessedRows :
         InTable(V2_MANUAL_OVERRIDES, clean_name(r.vendor_name)) =>
           /\ clean_name(r.vendor_name) \in DOMAIN normalization_map
           /\ normalization_map[clean_name(r.vendor_name)] =
                OverrideTarget(V2_MANUAL_OVERRIDES, clean_name(r.vendor_name))[2]
           /\ \E i \in 1..Len(match_details) :
                /\ match_details[i].messy_vendor = clean_name(r.vendor_name)
                /\ match_details[i].matched_vendor =
                     normalization_map[clean_name(r.vendor_name)]
                /\ match_details[i].method = "manual"
                /\ match_details[i].score = Score100

\* the deterministic loop has passed the override key 'casella', which the
\* classifier flags (it starts in lower case), with a reference list that
\* does not hold the override's target
C1_Witness ==
  /\ pipeline = "det"
  /\ N_CasellaLower \in DetProcessed
  /\ is_invalid_name(N_CasellaLower)[1]
  /\ N_CasellaLower \in DOMAIN normalization_map
  /\ normalization_map[N_CasellaLower] = N_CasellaWaste
  /\ N_CasellaWaste \notin Range(clean_vendor_list)

\* ------------------------------------------------------------------------
\* Canonical names (C2)
\* ------------------------------------------------------------------------
\* the rows update_dashboard.py has passed, with their results
DashProcessed == 1..Len(normalized_vendor)

\* C2: every canonical vendor V of the reference list that occurs as a raw
\* vendor name, with whatever counterparty, resolves to V itself: not to
\* another vendor, not to Invalid and not to Unmatched.
C2_CanonicalResolvesToItself ==
  /\ pipeline = "det" =>
       \A mv \in DetProcessed :
         mv \in Range(clean_vendor_list) =>
           /\ mv \in DOMAIN normalization_map
           /\ normalization_map[mv] = mv
  /\ pipeline = "v2" =>
       \A r \in V2ProcessedRows :
         clean_name(r.vendor_name) \in Range(clean_vendor_list) =>
           /\ clean_name(r.vendor_name) \in DOMAIN normalization_map
           /\ normalization_map[clean_name(r.vendor_name)] = clean_name(r.vendor_name)
  /\ pipeline = "dash" =>
       \A k \in DashProcessed :
         clean_vendor_name(invoices[k].vendor_name) \in Range(clean_vendor_list) =>
           normalized_vendor[k] = clean_vendor_name(invoices[k].vendor_name)

\* ------------------------------------------------------------------------
\* Location-scoped results (C3)
\* ------------------------------------------------------------------------
LocationMethods == {"location_exact", "location_normalized", "constrained"}

\* C3: a result produced by the location-scoped stage for a counterparty
\* resolved to location L is a member of L's vendor set, also when several
\* location names share one normalized location key.
C3_LocationScoped ==
  pipeline \in {"det", "v2"} =>
    \A i \in 1..Len(match_details) :
      match_details[i].method \in LocationMethods =>
        /\ match_details[i].location \in DOMAIN location_to_vendors
        /\ match_details[i].matched_vendor
             \in location_to_vendors[match_details[i].location]

\* ------------------------------------------------------------------------
\* Single-vendor locations (C4)
\* ------------------------------------------------------------------------
\* the locations the deterministic script resolves the counterparties of a
\* raw vendor name to
DetLocationsOf(messy_vendor) ==
  {cp_to_location[normalize_for_lookup(r.counterparty)] :
     r \in {q \in Range(vendor_rows(messy_vendor)) :
              normalize_for_lookup(q.counterparty) \in DOMAIN cp_to_location}}

\* C4: a raw vendor name that no earlier stage (override, classifier, exact
\* key, aggressive key) resolves and whose counterparty resolves to a location
\* with exactly one vendor W is mapped to W, whatever the similarity of the
\* two names.
C4_SingleVendorLocation ==
  pipeline = "det" =>
    \A mv \in DetProcessed :
      (/\ ~ InTable(DET_MANUAL_OVERRIDES, mv)
       /\ ~ is_invalid_name(mv)[1]
       /\ normalize_for_lookup(mv) \notin DOMAIN clean_lookup_exact
       /\ normalize_aggressive(mv) \notin DOMAIN clean_lookup_aggressive)
      => \A loc \in DetLocationsOf(mv) :
           Cardinality(location_to_vendors[loc]) = 1 =>
             /\ mv \in DOMAIN normalization_map
             /\ normalization_map[mv] \in location_to_vendors[loc]

\* ------------------------------------------------------------------------
\* One result per name (C5)
\* ------------------------------------------------------------------------
\* the number of the three outputs a name is in
ResultCount(mv) ==
  (IF mv \in DOMAIN normalization_map THEN 1 ELSE 0)
  + Cardinality({i \in 1..Len(flagged_invalid) : flagged_invalid[i].vendor_name = mv})
  + Cardinality({i \in 1..Len(unmatched_valid) : unmatched_valid[i].vendor_name = mv})

\* C5: when the matching loop of the deterministic script has ended, every
\* distinct vendor name is in exactly one of the normalization map, the invalid
\* report (with a reason) and the unmatched report, and the three sizes add up
\* to the number of distinct names.
C5_ExactlyOneResult ==
  (pipeline = "det" /\ pc \in {"report", "done"}) =>
    /\ \A mv \in Range(messy_vendors) : ResultCount(mv) = 1
    /\ \A i \in 1..Len(flagged_invalid) : flagged_invalid[i].reason # NoReason
    /\ Cardinality(DOMAIN normalization_map) + Len(flagged_invalid)
         + Len(unmatched_valid) = Len(messy_vendors)

\* a finished run over two names, one reported invalid and one unmatched
C5_Witness ==
  /\ pipeline = "det" /\ pc = "done"
  /\ Len(messy_vendors) = 2
  /\ Len(flagged_invalid) = 1
  /\ Len(unmatched_valid) = 1

\* ------------------------------------------------------------------------
\* Row order (C6)
\* ------------------------------------------------------------------------
\* the same invoice records in the opposite row order
Reverse(s) == [i \in 1..Len(s) |-> s[Len(s) + 1 - i]]

\* the vendor of a result of the location loop, NoVendor for a miss
LocationLoopVendor(byloc) == IF byloc # NoResult THEN byloc[1] ELSE NoVendor

\* C6: the result of a raw vendor name depends on the reference data and the
\* overrides only.  A name the deterministic script matches in its location
\* loop gets the same vendor when its invoice rows come in the opposite
\* order, and within one run of update_dashboard.py two rows with the same
\* vendor name get the same result.
C6_RowOrderIndependent ==
  /\ pipeline = "det" =>
       \A i \in 1..Len(match_details) :
         match_details[i].method \in {"location_exact", "location_normalized"} =>
           match_details[i].matched_vendor =
             LocationLoopVendor(
               DetLocationLoop(Reverse(vendor_rows(match_details[i].messy_vendor)),
                               normalize_for_lookup(match_details[i].messy_vendor),
                               normalize_aggressive(match_details[i].messy_vendor)))
  /\ pipeline = "dash" =>
       \A j, k \in DashProcessed :
         clean_vendor_name(invoices[j].vendor_name)
           = clean_vendor_name(invoices[k].vendor_name)
         => normalized_vendor[j] = normalized_vendor[k]

\* ------------------------------------------------------------------------
\* Committed targets (C7)
\* ------------------------------------------------------------------------
\* C7: every value committed to the normalization map is an entry of the
\* canonical vendor list, whatever stage committed it.
C7_TargetsAreCanonical ==
  \A mv \in DOMAIN normalization_map :
    normalization_map[mv] \in Range(clean_vendor_list)

\* ------------------------------------------------------------------------
\* Stage order (C8)
\* ------------------------------------------------------------------------
\* the canonical vendors the global exact lookup of the v2 script accepts
V2GlobalExact(messy_vendor_clean) ==
  {i \in 1..Len(clean_vendor_list) :
     Upper(clean_name(clean_vendor_list[i])) = Upper(messy_vendor_clean)}

\* the canonical vendors its global normalized lookup accepts
V2GlobalNormalized(messy_vendor_clean) ==
  {i \in 1..Len(clean_vendor_list) :
     normalize_name(clean_vendor_list[i]) = normalize_name(messy_vendor_clean)}

\* C8: the stages are tried in the order override, global exact key, global
\* aggressive key, location-constrained lookup, global fuzzy match, partial
\* match, and the first that succeeds gives the result: a result of the
\* location-constrained stage is recorded only for a name that is no override
\* key and has no global match by exact or aggressive key.
C8_StageOrder ==
  /\ pipeline = "det" =>
       \A i \in 1..Len(match_details) :
         match_details[i].method \in {"location_exact", "location_normalized"} =>
           /\ ~ InTable(DET_MANUAL_OVERRIDES, match_details[i].messy_vendor)
           /\ normalize_for_lookup(match_details[i].messy_vendor)
                \notin DOMAIN clean_lookup_exact
           /\ normalize_aggressive(match_details[i].messy_vendor)
                \notin DOMAIN clean_lookup_aggressive
  /\ pipeline = "v2" =>
       \A i \in 1..Len(match_details) :
         match_details[i].method = "constrained" =>
           /\ ~ InTable(V2_MANUAL_OVERRIDES, match_details[i].messy_vendor)
           /\ V2GlobalExact(match_details[i].messy_vendor) = {}
           /\ V2GlobalNormalized(match_details[i].messy_vendor) = {}
  /\ pipeline = "dash" =>
       \A k \in DashProcessed :
         Lower(clean_vendor_name(invoices[k].vendor_name))
           \in DOMAIN clean_vendors_lower
         => normalized_vendor[k] =
              clean_vendors_lower[Lower(clean_vendor_name(invoices[k].vendor_name))]

\* ------------------------------------------------------------------------
\* The classifier's rules (C9, C10)
\* ------------------------------------------------------------------------
RuleEmpty(n) == n = <<>>

RuleTooShort(n) == Len(n) < 5

RuleTooFewLetters(n) == Cardinality({i \in 1..Len(n) : IsAlpha(n[i])}) < 3

RuleStartsLowercase(n) == n # <<>> /\ IsLower(n[1])

RuleGarbagePattern(n) == IsGarbage(n)

\* the first rule, in the order empty, too_short, too_few_letters,
\* starts_lowercase, garbage_pattern, that n satisfies
FirstRule(n) ==
  IF RuleEmpty(n) THEN "empty"
  ELSE IF RuleTooShort(n) THEN "too_short"
  ELSE IF RuleTooFewLetters(n) THEN "too_few_letters"
  ELSE IF RuleStartsLowercase(n) THEN "starts_lowercase"
  ELSE IF RuleGarbagePattern(n) THEN "garbage_pattern"
  ELSE "valid"

\* C9: the classifier checks its rules in the order empty, too_short (length
\* below 5), too_few_letters (fewer than 3 letters), starts_lowercase,
\* garbage_pattern and returns the reason of the first rule the name
\* satisfies; it returns Valid exactly when the name satisfies no rule.
C9_RuleOrder ==
  verdict # NoResult =>
    /\ verdict[1] = (FirstRule(input_name) # "valid")
    /\ (verdict[1] => verdict[2][1] = FirstRule(input_name))
    /\ (~verdict[1] => verdict[2] = NoReason)

\* a name that starts in lower case and has too few letters was classified:
\* the earlier rule named the reason
C9_Witness ==
  /\ input_name = <<"n", "1", "1", "1", "1">>
  /\ verdict = <<TRUE, <<"too_few_letters", 1>>>>

\* C10 as stated: "" is Invalid(empty), "AB" is Invalid, "123" is
\* Invalid(garbage_pattern), "waste" is Invalid(starts_lowercase) and
\* "Acme Disposal" is Valid.
C10_ExamplesAsStated ==
  verdict # NoResult =>
    /\ (input_name = <<>> => verdict = <<TRUE, <<"empty">>>>)
    /\ (input_name = N_AB => verdict[1])
    /\ (input_name = N_123 => verdict[1] /\ verdict[2][1] = "garbage_pattern")
    /\ (input_name = N_waste => verdict = <<TRUE, <<"starts_lowercase">>>>)
    /\ (input_name = N_AcmeDisposal => verdict = <<FALSE, NoReason>>)

\* C10, amended: "" is Invalid(empty), "AB" is Invalid(too_short, 2 chars),
\* "123" is Invalid(too_short, 3 chars) because the length is checked before
\* the garbage patterns, "waste" is Invalid(starts_lowercase) and
\* "Acme Disposal" is Valid.
C10_Examples ==
  verdict # NoResult =>
    /\ (input_name = <<>> => verdict = <<TRUE, <<"empty">>>>)
    /\ (input_name = N_AB => verdict = <<TRUE, <<"too_short", 2>>>>)
    /\ (input_name = N_123 => verdict = <<TRUE, <<"too_short", 3>>>>)
    /\ (input_name = N_waste => verdict = <<TRUE, <<"starts_lowercase">>>>)
    /\ (input_name = N_AcmeDisposal => verdict = <<FALSE, NoReason>>)

\* "123" was classified, and by its length
C10_Witness == input_name = N_123 /\ verdict # NoResult /\ verdict[2][1] = "too_short"

\* ------------------------------------------------------------------------
\* Idempotent normalizers (C11)
\* ------------------------------------------------------------------------
\* C11: the normalizers are idempotent.  The keys the deterministic script
\* computed for a name and stored in the unmatched report are fixed points of
\* normalize_for_lookup and normalize_aggressive, and the names and keys the
\* v2 script computed are fixed points of clean_name and normalize_name.
C11_NormalizersIdempotent ==
  /\ pipeline = "det" =>
       \A i \in 1..Len(unmatched_valid) :
         /\ normalize_for_lookup(unmatched_valid[i].normalized)
              = unmatched_valid[i].normalized
         /\ normalize_aggressive(unmatched_valid[i].aggressive_normalized)
              = unmatched_valid[i].aggressive_normalized
  /\ pipeline = "v2" =>
       \A i \in 1..Len(match_details) :
         /\ clean_name(match_details[i].messy_vendor) = match_details[i].messy_vendor
         /\ normalize_name(normalize_name(match_details[i].messy_vendor))
              = normalize_name(match_details[i].messy_vendor)

\* ------------------------------------------------------------------------
\* C12: lowering one acceptance threshold
\* ------------------------------------------------------------------------
\* the thresholds of rebuild_normalization_map_v2.py with one of them lowered
V2Lowered ==
  {[V2Thresholds EXCEPT !.location = t] : t \in {0, 50}}
    \cup {[V2Thresholds EXCEPT !.constrained = t] : t \in {0, 50}}
    \cup {[V2Thresholds EXCEPT !.global = t] : t \in {0, 65}}
    \cup {[V2Thresholds EXCEPT !.partial_ratio = t] : t \in {0, 70}}
    \cup {[V2Thresholds EXCEPT !.min_length = t] : t \in {0, 3}}

\* the thresholds of match_vendor with one of them lowered
DashLowered ==
  {[DashThresholds EXCEPT !.location = t] : t \in {0, 50}}
    \cup {[DashThresholds EXCEPT !.constrained = t] : t \in {0, 20}}
    \cup {[DashThresholds EXCEPT !.partial_ratio = t] : t \in {0, 35}}
    \cup {[DashThresholds EXCEPT !.global = t] : t \in {0, 65}}

\* lines 253-282 at the thresholds th for row k of the invoices: a stage
\* resolves the name
V2RowMatchedAt(k, th) ==
  V2Resolve(clean_name(invoice_cp_vendor[k].vendor_name),
            find_location_match(invoice_cp_vendor[k].counterparty,
                                LocationNames(location_to_vendors), th.location),
            th).vendor # NoVendor

\* the names rebuild_normalization_map_v2.py maps at the thresholds th: the
\* raw and the cleaned name of every invoice row that a stage resolves
V2MatchedAt(th) ==
  UNION {{invoice_cp_vendor[k].vendor_name,
          clean_name(invoice_cp_vendor[k].vendor_name)} :
           k \in {i \in 1..Len(invoice_cp_vendor) : V2RowMatchedAt(i, th)}}

\* match_vendor resolves row k of the invoices at the thresholds th
DashRowMatchedAt(k, th) ==
  match_vendor(invoices[k], EmptyDict, EmptyDict, th).result # Unmatched

\* C12: for fixed invoices, reference data and overrides, lowering a single
\* acceptance threshold never loses a match.  At the end of a run the names
\* in the v2 normalization map are those matched at the script's thresholds,
\* and every row resolved at them is resolved with the location, constrained,
\* global or partial-ratio threshold or the minimum partial length lowered;
\* the rows match_vendor resolved are those resolved at its thresholds, and
\* each of them is resolved with one of its thresholds lowered.
C12_LoweringNeverLosesAMatch ==
  /\ (pipeline = "v2" /\ pc = "done") =>
       /\ DOMAIN normalization_map = V2MatchedAt(V2Thresholds)
       /\ \A k \in 1..Len(invoice_cp_vendor) :
            V2RowMatchedAt(k, V2Thresholds)
              => \A th \in V2Lowered : V2RowMatchedAt(k, th)
  /\ (pipeline = "dash" /\ pc = "done") =>
       \A k \in 1..Len(invoices) :
         /\ (normalized_vendor[k] # Unmatched) = DashRowMatchedAt(k, DashThresholds)
         /\ DashRowMatchedAt(k, DashThresholds)
              => \A th \in DashLowered : DashRowMatchedAt(k, th)

\* a finished v2 run with a name matched and another one that is matched
\* only with a threshold lowered
C12_Witness ==
  /\ pipeline = "v2" /\ pc = "done"
  /\ V2MatchedAt(V2Thresholds) # {}
  /\ \E th \in V2Lowered : V2MatchedAt(th) # V2MatchedAt(V2Thresholds)

\* ------------------------------------------------------------------------
\* C13: the run over 'WASTE PRO', 'CASELLA', 'xyz', '??'
\* ------------------------------------------------------------------------
\* a finished run of the deterministic or the v2 script with the clean
\* vendors 'Waste Pro' and 'Casella Waste', no location and the four names
EndToEndRun ==
  /\ pipeline \in {"det", "v2"} /\ pc = "done"
  /\ clean_vendor_list = <<N_WastePro, N_CasellaWaste>>
  /\ location_vendor = {}
  /\ invoices = EndToEndRows

\* the name is mapped to the vendor by one of the methods, in v2 with a
\* score of at least min_score
MatchedBy(name, vendor, methods, min_score) ==
  /\ name \in DOMAIN normalization_map /\ normalization_map[name] = vendor
  /\ \E i \in 1..Len(match_details) :
       /\ match_details[i].messy_vendor = name
       /\ match_details[i].matched_vendor = vendor
       /\ match_details[i].method \in methods
       /\ pipeline = "v2" => ScoreGE(match_details[i].score, min_score)

\* C13: with the clean vendors 'Waste Pro' and 'Casella Waste', no location
\* and the names 'WASTE PRO', 'CASELLA', 'xyz', '??', the run ends with
\* 'WASTE PRO' mapped to 'Waste Pro' by the manual override (score 100),
\* 'CASELLA' mapped to 'Casella Waste' by the partial stage (score 90 or
\* more), 'xyz' unmatched and not invalid, and '??' invalid with the reason
\* garbage_pattern.
C13_EndToEnd ==
  EndToEndRun =>
    /\ MatchedBy(N_WASTE_PRO, N_WastePro, {"manual", "manual_override"}, 100)
    /\ MatchedBy(N_CASELLA, N_CasellaWaste, {"partial"}, 90)
    /\ N_xyz \notin DOMAIN normalization_map
    /\ \A i \in 1..Len(flagged_invalid) : flagged_invalid[i].vendor_name # N_xyz
    /\ \E i \in 1..Len(flagged_invalid) :
         /\ flagged_invalid[i].vendor_name = N_QQ
         /\ flagged_invalid[i].reason = <<"garbage_pattern">>

\* ------------------------------------------------------------------------
\* C14: the vendor a shared key maps to
\* ------------------------------------------------------------------------
\* the first clean vendor, in the order of the list, that has the key
FirstWithKey(key, keys) ==
  clean_vendor_list[FirstIndex({i \in 1..Len(clean_vendor_list) : keys[i] = key})]

\* candidates_norm as find_best_match builds it for the clean vendor list
\* (rebuild_normalization_map_v2.py line 137)
GlobalCandidatesNorm ==
  DictLast(NonEmptyKeys([i \in 1..Len(clean_vendor_list) |->
     <<normalize_name(clean_vendor_list[i]), clean_vendor_list[i]>>]))

\* C14: every key of a lookup built from the clean vendor list maps to the
\* first clean vendor of the list that has the key: the exact and the
\* aggressive lookup of the deterministic script, candidates_norm of
\* find_best_match and clean_vendors_lower of update_dashboard.py.
C14_FirstVendorKeepsKey ==
  /\ (pipeline = "det" /\ pc \in {"match", "report", "done"}) =>
       /\ \A k \in DOMAIN clean_lookup_exact :
            clean_lookup_exact[k] =
              FirstWithKey(k, [i \in 1..Len(clean_vendor_list) |->
                                 normalize_for_lookup(clean_vendor_list[i])])
       /\ \A k \in DOMAIN clean_lookup_aggressive :
            clean_lookup_aggressive[k] =
              FirstWithKey(k, [i \in 1..Len(clean_vendor_list) |->
                                 normalize_aggressive(clean_vendor_list[i])])
  /\ (pipeline = "v2" /\ pc \in {"match", "done"}) =>
       \A k \in DOMAIN GlobalCandidatesNorm :
         GlobalCandidatesNorm[k] =
           FirstWithKey(k, [i \in 1..Len(clean_vendor_list) |->
                              normalize_name(clean_vendor_list[i])])
  /\ (pipeline = "dash" /\ pc \in {"match", "done"}) =>
       \A k \in DOMAIN clean_vendors_lower :
         clean_vendors_lower[k] =
           FirstWithKey(k, [i \in 1..Len(clean_vendor_list) |->
                              Lower(clean_vendor_list[i])])

\* ------------------------------------------------------------------------
\* C15: one resolution per name
\* ------------------------------------------------------------------------
\* the first row of rows that carries the vendor name of row k
FirstRowOf(rows, k) ==
  FirstIndex({i \in 1..Len(rows) : rows[i].vendor_name = rows[k].vendor_name})

\* C15: a vendor name is resolved once per run, at the first invoice row that
\* carries it, and later rows neither resolve it again nor change the
\* outcome.  In the v2 script a name whose rows have been processed is in the
\* normalization map exactly when its first row resolved it; in
\* update_dashboard.py every processed row has the result of the first row
\* with its vendor name.
C15_ResolvedOncePerName ==
  /\ (pipeline = "v2" /\ pc \in {"match", "done"}) =>
       \A k \in 1..(idx - 1) :
         (clean_name(invoice_cp_vendor[k].vendor_name) \in DOMAIN normalization_map)
           = V2RowMatchedAt(FirstRowOf(invoice_cp_vendor, k), V2Thresholds)
  /\ (pipeline = "dash" /\ pc \in {"match", "done"}) =>
       \A k \in 1..(idx - 1) :
         normalized_vendor[k] = normalized_vendor[FirstRowOf(invoices, k)]

\* ------------------------------------------------------------------------
\* C16: the matches of the deterministic script are exact on a key
\* ------------------------------------------------------------------------
\* C16: every mapping the deterministic script commits by the methods
\* exact_match, normalized_match, location_exact or location_normalized
\* joins two names with the same key: the same normalize_for_lookup, or the
\* same normalize_aggressive.
C16_SameKeyAtSameFidelity ==
  pipeline = "det" =>
    \A i \in 1..Len(match_details) :
      match_details[i].method \in
          {"exact_match", "normalized_match", "location_exact", "location_normalized"}
        => \/ normalize_for_lookup(match_details[i].messy_vendor)
                = normalize_for_lookup(match_details[i].matched_vendor)
           \/ normalize_aggressive(match_details[i].messy_vendor)
                = normalize_aggressive(match_details[i].matched_vendor)

\* ------------------------------------------------------------------------
\* C17: the vendor the partial stage returns
\* ------------------------------------------------------------------------
\* C17: a name mapped by the partial stage has at least 4 characters, its
\* score is 95 when the vendor starts with the name and 90 when the first
\* word of the vendor contains it, and no clean vendor that qualifies (by
\* prefix or by first word) has a shorter name than the vendor returned.
C17_ShortestQualifyingVendor ==
  pipeline = "v2" =>
    \A i \in 1..Len(match_details) :
      match_details[i].method = "partial" =>
        /\ Len(match_details[i].messy_vendor) >= 4
        /\ match_details[i].score =
             <<PartialHit(Upper(match_details[i].matched_vendor),
                          Upper(match_details[i].messy_vendor)), 1>>
        /\ \A j \in 1..Len(clean_vendor_list) :
             PartialHit(Upper(clean_vendor_list[j]),
                        Upper(match_details[i].messy_vendor)) > 0
               => Len(match_details[i].matched_vendor) <= Len(clean_vendor_list[j])

\* ------------------------------------------------------------------------
\* C18: the score of a global match
\* ------------------------------------------------------------------------
\* two scores with the same value
SameScore(x, y) == x[1] * y[2] = y[1] * x[2]

\* C18: a result of the v2 script with method global records the token sort
\* ratio of the normalized messy name and the normalized name of the vendor
\* returned, and this ratio is 80 or more.
C18_GlobalScoreIsTokenSort ==
  pipeline = "v2" =>
    \A i \in 1..Len(match_details) :
      match_details[i].method = "global" =>
        /\ SameScore(match_details[i].score,
                     token_sort_ratio(normalize_name(match_details[i].messy_vendor),
                                      normalize_name(match_details[i].matched_vendor)))
        /\ ScoreGE(token_sort_ratio(normalize_name(match_details[i].messy_vendor),
                                    normalize_name(match_details[i].matched_vendor)),
                   80)

\* ------------------------------------------------------------------------
\* C19: the caches
\* ------------------------------------------------------------------------
\* every key of the dict d keeps its value in e
KeepsEntries(d, e) ==
  \A k \in DOMAIN d : k \in DOMAIN e /\ e[k] = d[k]

\* C19: a cache entry is written once.  No step of a run changes or removes
\* an entry that location_cache or vendor_cache of update_dashboard.py, or
\* normalization_map or cp_to_location of rebuild_normalization_map_v2.py,
\* already holds.
C19_CacheEntriesAreFinal ==
  [][/\ KeepsEntries(location_cache, location_cache')
     /\ KeepsEntries(vendor_cache, vendor_cache')
     /\ KeepsEntries(normalization_map, normalization_map')
     /\ KeepsEntries(cp_to_location, cp_to_location')]_vars

\* a finished run of update_dashboard.py over two rows with the same vendor
\* name and counterparty, both in the caches when the second row is matched
C19_Witness ==
  /\ pipeline = "dash" /\ pc = "done"
  /\ Len(invoices) = 2
  /\ invoices[1] = invoices[2]
  /\ invoices[1].counterparty \in DOMAIN location_cache
  /\ clean_vendor_name(invoices[1].vendor_name) \in DOMAIN vendor_cache

\* ------------------------------------------------------------------------
\* C20: the names that reach the garbage patterns
\* ------------------------------------------------------------------------
\* the name has no letter (a name of digits only is one of these)
NoLetters(n) == \A i \in 1..Len(n) : ~IsAlpha(n[i])

\* C20: a name without letters is rejected as empty, too_short or
\* too_few_letters, and garbage_pattern is returned only for CORP followed
\* by a period, in any letter case after an upper-case first letter.
C20_GarbageOnlyCorpDot ==
  verdict # NoResult =>
    /\ NoLetters(input_name) =>
         verdict[1] /\ verdict[2][1] \in {"empty", "too_short", "too_few_letters"}
    /\ verdict = <<TRUE, <<"garbage_pattern">>>> =>
         /\ IsUpper(input_name[1])
         /\ Upper(input_name) = N_CORPdot

\* ------------------------------------------------------------------------
\* C21: stage 2 of match_vendor
\* ------------------------------------------------------------------------
\* stage 1 yields nothing for row k of the invoices: match_vendor reaches
\* the direct match of lines 105-131
DashStage1Nothing(k) ==
  match_vendor(invoices[k], EmptyDict, EmptyDict, DashThresholds).stage = 2

\* what stage 2 returns for the cleaned name vn, read from vendor_cache
DashStage2Value(vn) ==
  IF vn = <<>> THEN Unmatched
  ELSE IF vendor_cache[vn] = NoVendor THEN Unmatched
  ELSE vendor_cache[vn]

\* C21: when stage 1 of match_vendor yields nothing for a row, the value
\* returned depends only on the cleaned vendor name.  Every such row that has
\* been processed has its name in vendor_cache and returned the cached vendor,
\* or 'Unmatched' for a cached None; two such rows with the same cleaned name
\* returned the same value; and every vendor in vendor_cache is a clean vendor.
C21_Stage2DependsOnNameOnly ==
  (pipeline = "dash" /\ pc \in {"match", "done"}) =>
    /\ \A k \in 1..(idx - 1) :
         DashStage1Nothing(k) =>
           /\ clean_vendor_name(invoices[k].vendor_name) # <<>>
                => clean_vendor_name(invoices[k].vendor_name) \in DOMAIN vendor_cache
           /\ normalized_vendor[k]
                = DashStage2Value(clean_vendor_name(invoices[k].vendor_name))
           /\ \A j \in 1..(k - 1) :
                (/\ DashStage1Nothing(j)
                 /\ clean_vendor_name(invoices[j].vendor_name)
                      = clean_vendor_name(invoices[k].vendor_name))
                  => normalized_vendor[j] = normalized_vendor[k]
    /\ \A vn \in DOMAIN vendor_cache :
         vendor_cache[vn] = NoVendor \/ vendor_cache[vn] \in Range(clean_vendor_list)

\* a finished run of update_dashboard.py over two rows with the same vendor
\* name, one without a counterparty and one whose counterparty resolves to
\* no location: the first result was computed, the second came from
\* vendor_cache
C21_Witness ==
  /\ pipeline = "dash" /\ pc = "done"
  /\ Len(invoices) = 2
  /\ invoices[1].counterparty = NaN
  /\ invoices[2].counterparty \notin {NaN, <<>>}
  /\ invoices[1].vendor_name = invoices[2].vendor_name
  /\ DashStage1Nothing(1) /\ DashStage1Nothing(2)
  /\ normalized_vendor[1] # Unmatched
  /\ normalized_vendor[2] = normalized_vendor[1]

=============================================================================
